---------------------------- MODULE Spec2Model ----------------------------
(***************************************************************************)
(* A model of rt-format: the runtime parser of Rust formatting strings     *)
(* (src/src/parser.rs), the Specifier of src/src/lib.rs, the argument      *)
(* stores of src/src/argument.rs and the Variant value of the test suite   *)
(* (src/tests/common/mod.rs).                                              *)
(*                                                                         *)
(* Text is a sequence of characters.  An ASCII character is the string of  *)
(* itself; a character outside ASCII is a string naming its code point     *)
(* ("U+0443").  Offsets are byte offsets, as in the code: ByteLen gives    *)
(* the UTF-8 width of a character.  An Option is a sequence of length 0    *)
(* (None) or 1 (Some); a Result is a record with a tag "Ok" or "Err".      *)
(***************************************************************************)
EXTENDS Integers, Sequences, FiniteSets, TLC

None == <<>>
Some(x) == <<x>>
IsSome(o) == o # <<>>
Unwrap(o) == o[1]

\* `let x = ...;` and the closures of and_then, map, or_else: the value is
\* computed once and the rest works with it.
Bind(x, Rest(_)) == Rest(x)

-----------------------------------------------------------------------------
(* Characters and the classes the regular expressions use.                  *)

AsciiDigits == {"0", "1", "2", "3", "4", "5", "6", "7", "8", "9"}

AsciiLetters ==
    {"a", "b", "c", "d", "e", "f", "g", "h", "i", "j", "k", "l", "m",
     "n", "o", "p", "q", "r", "s", "t", "u", "v", "w", "x", "y", "z",
     "A", "B", "C", "D", "E", "F", "G", "H", "I", "J", "K", "L", "M",
     "N", "O", "P", "Q", "R", "S", "T", "U", "V", "W", "X", "Y", "Z"}

\* Characters outside ASCII: a Cyrillic letter and an Arabic-Indic digit.
CyrillicU == "U+0443"
ArabicThree == "U+0663"
NonAscii == {CyrillicU, ArabicThree}

\* The UTF-8 width of a character.
ByteLen(c) == IF c \in NonAscii THEN 2 ELSE 1

RECURSIVE ByteLenSeq(_)
ByteLenSeq(s) == IF s = <<>> THEN 0 ELSE ByteLen(Head(s)) + ByteLenSeq(Tail(s))

\* u8::is_ascii_digit on the first byte of a character.
IsAsciiDigit(c) == c \in AsciiDigits

\* \d of the regex crate: Unicode decimal digits.
IsDigit(c) == c \in AsciiDigits \cup {ArabicThree}

\* [[:alpha:]] and [[:alnum:]] of the regex crate: ASCII only.
IsAlpha(c) == c \in AsciiLetters
IsAlnum(c) == c \in AsciiLetters \cup AsciiDigits

DigitVal(c) ==
    CASE c = "0" -> 0 [] c = "1" -> 1 [] c = "2" -> 2 [] c = "3" -> 3
      [] c = "4" -> 4 [] c = "5" -> 5 [] c = "6" -> 6 [] c = "7" -> 7
      [] c = "8" -> 8 [] c = "9" -> 9

RECURSIVE DecimalValue(_)
DecimalValue(s) ==
    IF s = <<>> THEN 0
    ELSE DecimalValue(SubSeq(s, 1, Len(s) - 1)) * 10 + DigitVal(s[Len(s)])

\* The decimal digits of usize::MAX on a 64-bit target, 18446744073709551615.
UsizeMaxDigits ==
    <<"1", "8", "4", "4", "6", "7", "4", "4", "0", "7",
      "3", "7", "0", "9", "5", "5", "1", "6", "1", "5">>

RECURSIVE StripZeros(_)
StripZeros(s) ==
    IF s # <<>> /\ Head(s) = "0" THEN StripZeros(Tail(s)) ELSE s

RECURSIVE DigitsLeq(_, _)
\* a <= b for two numerals of the same length.
DigitsLeq(a, b) ==
    IF a = <<>> THEN TRUE
    ELSE IF DigitVal(Head(a)) # DigitVal(Head(b))
         THEN DigitVal(Head(a)) < DigitVal(Head(b))
         ELSE DigitsLeq(Tail(a), Tail(b))

FitsUsize(s) ==
    LET t == StripZeros(s)
    IN  \/ Len(t) < Len(UsizeMaxDigits)
        \/ Len(t) = Len(UsizeMaxDigits) /\ DigitsLeq(t, UsizeMaxDigits)

\* str::parse::<usize>: one or more ASCII digits (a leading '+' cannot reach
\* it: the regular expressions capture digits only), no overflow.
ParseUsize(s) ==
    IF s # <<>> /\ (\A i \in 1..Len(s) : IsAsciiDigit(s[i])) /\ FitsUsize(s)
    THEN Some(DecimalValue(s))
    ELSE None

Drop(s, n) == SubSeq(s, n + 1, Len(s))
Take(s, n) == SubSeq(s, 1, n)

-----------------------------------------------------------------------------
(* The Specifier and the conversions generate_code! derives for it.         *)

\* impl Default for Specifier
DefaultSpecifier ==
    [align |-> "None", sign |-> "Default", repr |-> "Default", pad |-> "Space",
     width |-> [kind |-> "Auto"], precision |-> [kind |-> "Auto"],
     format |-> "Display"]

WidthAtLeast(n) == [kind |-> "AtLeast", width |-> n]
PrecisionExactly(n) == [kind |-> "Exactly", precision |-> n]

Ok(x) == [tag |-> "Ok", val |-> x]
Err(x) == [tag |-> "Err", err |-> x]
IsOk(r) == r.tag = "Ok"

\* TryFrom<&str> for Align, Sign, Repr, Pad and Format: the literal of each
\* variant in generate_code!, anything else an error.
AlignFrom(t) ==
    CASE t = <<>> -> Ok("None") [] t = <<"<">> -> Ok("Left")
      [] t = <<"^">> -> Ok("Center") [] t = <<">">> -> Ok("Right")
      [] OTHER -> Err(<<>>)

SignFrom(t) ==
    CASE t = <<>> -> Ok("Default") [] t = <<"+">> -> Ok("Always")
      [] OTHER -> Err(<<>>)

ReprFrom(t) ==
    CASE t = <<>> -> Ok("Default") [] t = <<"#">> -> Ok("Alt")
      [] OTHER -> Err(<<>>)

\* A Pad that is Zero when its part of the text is absent.
PadFrom_AbsentIsZero(t) ==
    CASE t = <<>> -> Ok("Zero") [] t = <<"0">> -> Ok("Zero")
      [] OTHER -> Err(<<>>)

PadFrom(t) ==
    CASE t = <<>> -> Ok("Space") [] t = <<"0">> -> Ok("Zero")
      [] OTHER -> Err(<<>>)

FormatFrom(t) ==
    CASE t = <<>> -> Ok("Display") [] t = <<"?">> -> Ok("Debug")
      [] t = <<"o">> -> Ok("Octal") [] t = <<"x">> -> Ok("LowerHex")
      [] t = <<"X">> -> Ok("UpperHex") [] t = <<"b">> -> Ok("Binary")
      [] t = <<"e">> -> Ok("LowerExp") [] t = <<"E">> -> Ok("UpperExp")
      [] OTHER -> Err(<<>>)

\* Parseable::parse for a type with TryFrom<&str>: an absent capture is "".
CaptureText(capture) == IF IsSome(capture) THEN Unwrap(capture) ELSE <<>>

-----------------------------------------------------------------------------
(* The regular expressions, matched as the regex crate matches them: the    *)
(* first match in the order of preference of a backtracking search, every   *)
(* optional group greedy.  A match is a record of the captures and of the   *)
(* number of characters matched.                                            *)

NoCaptures ==
    [end |-> 0, inSpec |-> FALSE, index |-> None, name |-> None,
     align |-> None, sign |-> None, repr |-> None, pad |-> None,
     width |-> None, precision |-> None, format |-> None]

\* The length of the longest run of characters of class `cls` in s after
\* position `at` (0-based: the run starts at s[at + 1]).
RunLen(s, at, cls) ==
    CHOOSE n \in 0..(Len(s) - at) :
        /\ \A i \in 1..n : s[at + i] \in cls
        /\ (n = Len(s) - at \/ s[at + n + 1] \notin cls)

CharAt(s, i) == IF i >= 1 /\ i <= Len(s) THEN s[i] ELSE ""

DigitChars == AsciiDigits \cup {ArabicThree}
AlnumChars == AsciiLetters \cup AsciiDigits

\* The lengths, in order of preference, of the matches at s[at + 1] of
\*   (?:\d+\$?)|(?:[[:alpha:]][[:alnum:]]*\$)
\* and, with `star`, of the third alternative \*.
RECURSIVE DigitTokens(_, _, _)
DigitTokens(s, at, n) ==
    IF n = 0 THEN <<>>
    ELSE (IF CharAt(s, at + n + 1) = "$" THEN <<n + 1>> ELSE <<>>)
         \o <<n>> \o DigitTokens(s, at, n - 1)

RECURSIVE NameTokens(_, _, _)
NameTokens(s, at, n) ==
    IF n = 0 THEN <<>>
    ELSE (IF CharAt(s, at + n + 1) = "$" THEN <<n + 1>> ELSE <<>>)
         \o NameTokens(s, at, n - 1)

SizeTokens(s, at, star) ==
    DigitTokens(s, at, RunLen(s, at, DigitChars))
    \o (IF IsAlpha(CharAt(s, at + 1))
        THEN NameTokens(s, at, 1 + RunLen(s, at + 1, AlnumChars))
        ELSE <<>>)
    \o (IF star /\ CharAt(s, at + 1) = "*" THEN <<1>> ELSE <<>>)

\* n, n-1, ..., 1
Descending(n) == [i \in 1..n |-> n - i + 1]

\* An optional single character that is matched only if the rest fails
\* without it.
OneCharOptions_Lazy(s, c, f, cls) ==
    <<c>>
    \o (IF c.inSpec /\ CharAt(s, c.end + 1) \in cls
        THEN <<[c EXCEPT ![f] = Some(<<s[c.end + 1]>>), !.end = c.end + 1]>>
        ELSE <<>>)

\* One optional single character of `cls`, captured as field `f`.
OneCharOptions(s, c, f, cls) ==
    (IF c.inSpec /\ CharAt(s, c.end + 1) \in cls
     THEN <<[c EXCEPT ![f] = Some(<<s[c.end + 1]>>), !.end = c.end + 1]>>
     ELSE <<>>)
    \o <<c>>

LiteralOptions(s, c, ch) ==
    IF CharAt(s, c.end + 1) = ch THEN <<[c EXCEPT !.end = c.end + 1]>> ELSE <<>>

\* (?:(?P<index>\d+)|(?P<name>[[:alpha:]][[:alnum:]]*))?
HeadOptions(s, c) ==
    LET at == c.end
        d == RunLen(s, at, DigitChars)
        a == IF IsAlpha(CharAt(s, at + 1))
             THEN 1 + RunLen(s, at + 1, AlnumChars) ELSE 0
    IN  [i \in 1..d |->
            [c EXCEPT !.index = Some(SubSeq(s, at + 1, at + Descending(d)[i])),
                      !.end = at + Descending(d)[i]]]
        \o [i \in 1..a |->
            [c EXCEPT !.name = Some(SubSeq(s, at + 1, at + Descending(a)[i])),
                      !.end = at + Descending(a)[i]]]
        \o <<c>>

\* (?: : <specifier> )?  : the colon opens the specifier, or the group is
\* skipped as a whole.
ColonOptions(s, c) ==
    (IF CharAt(s, c.end + 1) = ":"
     THEN <<[c EXCEPT !.inSpec = TRUE, !.end = c.end + 1]>> ELSE <<>>)
    \o <<c>>

\* (?P<width> ... )?
WidthOptions(s, c) ==
    LET lens == IF c.inSpec THEN SizeTokens(s, c.end, FALSE) ELSE <<>>
    IN  [i \in 1..Len(lens) |->
            [c EXCEPT !.width = Some(SubSeq(s, c.end + 1, c.end + lens[i])),
                      !.end = c.end + lens[i]]]
        \o <<c>>

\* (?:\.(?P<precision> ... ))?
PrecisionOptions(s, c) ==
    LET lens == IF c.inSpec /\ CharAt(s, c.end + 1) = "."
                THEN SizeTokens(s, c.end + 1, TRUE) ELSE <<>>
    IN  [i \in 1..Len(lens) |->
            [c EXCEPT !.precision = Some(SubSeq(s, c.end + 2, c.end + 1 + lens[i])),
                      !.end = c.end + 1 + lens[i]]]
        \o <<c>>

\* SPEC_REGEX_FRAG!, one stage per group.
SpecStages == <<"align", "sign", "repr", "pad", "width", "precision", "format">>

\* ARG_RE
ArgStages == <<"lbrace", "head", "colon">> \o SpecStages \o <<"rbrace">>

StageOptions(stage, s, c) ==
    CASE stage = "lbrace" -> LiteralOptions(s, c, "{")
      [] stage = "head" -> HeadOptions(s, c)
      [] stage = "colon" -> ColonOptions(s, c)
      [] stage = "align" -> OneCharOptions(s, c, "align", {"<", "^", ">"})
      [] stage = "sign" -> OneCharOptions(s, c, "sign", {"+"})
      [] stage = "repr" -> OneCharOptions(s, c, "repr", {"#"})
      [] stage = "pad" -> OneCharOptions(s, c, "pad", {"0"})
      [] stage = "width" -> WidthOptions(s, c)
      [] stage = "precision" -> PrecisionOptions(s, c)
      [] stage = "format" ->
            OneCharOptions(s, c, "format", {"?", "o", "x", "X", "b", "e", "E"})
      [] stage = "rbrace" -> LiteralOptions(s, c, "}")

RECURSIVE MatchStages(_, _, _, _), FirstMatch(_, _, _, _, _)
\* The first match of stages k.. of `stages` on s, given the captures so far.
MatchStages(stages, k, s, c) ==
    IF k > Len(stages) THEN Some(c)
    ELSE FirstMatch(stages, k, s, StageOptions(stages[k], s, c), 1)

FirstMatch(stages, k, s, options, i) ==
    IF i > Len(options) THEN None
    ELSE Bind(MatchStages(stages, k + 1, s, options[i]), LAMBDA m :
             IF IsSome(m) THEN m ELSE FirstMatch(stages, k, s, options, i + 1))

\* ARG_RE.captures(text)
ArgReCaptures(text) == MatchStages(ArgStages, 1, text, NoCaptures)

\* SPEC_RE.captures(text): the fragment anchored at the start only.
SpecReCaptures(text) ==
    MatchStages(SpecStages, 1, text, [NoCaptures EXCEPT !.inSpec = TRUE])

-----------------------------------------------------------------------------
(* Values: the Variant of the test suite, and the argument stores.          *)

VariantInt(n) == [kind |-> "Int", val |-> n]
\* A Float is written in decimal: its sign, its integer part and the digits
\* of its fraction (42.042 is VariantFloat(FALSE, 42, <<0, 4, 2>>)).
VariantFloat(neg, int, frac) == [kind |-> "Float", neg |-> neg, int |-> int, frac |-> frac]

\* Variant::supports_format
SupportsFormat(v, spec) ==
    IF v.kind = "Int" THEN TRUE
    ELSE spec.format \in {"Display", "Debug", "LowerExp", "UpperExp"}

\* Variant::to_usize, the value's conversion to a size (ConvertToSize::convert)
ConvertToSize(v) ==
    IF v.kind = "Int" /\ v.val >= 0 THEN Ok(v.val) ELSE Err(<<>>)

\* A reference to a value of the caller's stores (&'p V): the store and the
\* place in it, positions counted from 0.
PosRef(i) == [store |-> "positional", idx |-> i]
NamedRef(n) == [store |-> "named", key |-> n]

\* The value a reference points to.
Deref(p, r) ==
    IF r.store = "positional" THEN p.positional[r.idx + 1] ELSE p.named[r.key]

\* <[V]>::get
PositionalGet(positional, index) ==
    IF index < Len(positional) THEN Some(PosRef(index)) ELSE None

\* HashMap::get
NamedGet(named, key) ==
    IF key \in DOMAIN named THEN Some(NamedRef(key)) ELSE None

-----------------------------------------------------------------------------
(* The Parser.  A parser is a record of the fields of struct Parser;        *)
(* positional_iter is the number of values the slice iterator has yielded.  *)
(* An operation that takes &mut self gives the parser it leaves and what it *)
(* returns.                                                                 *)

\* Parser::new
ParserNew(format, positional, named) ==
    [unparsed |-> format, parsed_len |-> 0, positional |-> positional,
     named |-> named, positional_iter |-> 0]

Returns(p, r) == [parser |-> p, ret |-> r]

\* Parser::next_argument
NextArgument(p) ==
    IF p.positional_iter < Len(p.positional)
    THEN Returns([p EXCEPT !.positional_iter = @ + 1], Some(PosRef(p.positional_iter)))
    ELSE Returns(p, None)

\* Parser::lookup_argument_by_index
LookupArgumentByIndex(p, idx) == PositionalGet(p.positional, idx)

\* Parser::lookup_argument_by_name
LookupArgumentByName(p, name) == NamedGet(p.named, name)

\* A conversion that takes a missing or unconvertible argument as zero.
ConvertFound_DefaultsToZero(p, value) ==
    IF IsSome(value) /\ IsOk(ConvertToSize(Deref(p, Unwrap(value))))
    THEN ConvertToSize(Deref(p, Unwrap(value)))
    ELSE Ok(0)

\* Option<&V> to Result<usize, ()>: value.ok_or(()).and_then(ConvertToSize::convert)
ConvertFound(p, value) ==
    IF IsSome(value) THEN ConvertToSize(Deref(p, Unwrap(value))) ELSE Err(<<>>)

\* A parse_size that takes every token with '$' for a name.
ParseSize_ByNameOnly(text, p) ==
    IF text[Len(text)] = "$"
    THEN ConvertFound(p, LookupArgumentByName(p, Take(text, Len(text) - 1)))
    ELSE Bind(ParseUsize(text), LAMBDA n :
             IF IsSome(n) THEN Ok(Unwrap(n)) ELSE Err(<<>>))

\* parse_size
ParseSize(text, p) ==
    IF text[Len(text)] = "$"
    THEN LET t == Take(text, Len(text) - 1)
         IN  ConvertFound(p,
                 IF IsAsciiDigit(t[1])
                 THEN Bind(ParseUsize(t), LAMBDA idx :
                          IF IsSome(idx) THEN LookupArgumentByIndex(p, Unwrap(idx))
                          ELSE None)
                 ELSE LookupArgumentByName(p, t))
    ELSE Bind(ParseUsize(text), LAMBDA n :
             IF IsSome(n) THEN Ok(Unwrap(n)) ELSE Err(<<>>))

\* Parseable::parse for Width
WidthParse(capture, p) ==
    IF CaptureText(capture) = <<>> THEN Ok([kind |-> "Auto"])
    ELSE Bind(ParseSize(CaptureText(capture), p), LAMBDA r :
             IF IsOk(r) THEN Ok(WidthAtLeast(r.val)) ELSE r)

\* A Precision whose '*' reads the next positional value and leaves it to
\* be taken again.
PrecisionParse_StarPeeks(capture, p) ==
    IF CaptureText(capture) = <<>> THEN Returns(p, Ok([kind |-> "Auto"]))
    ELSE IF CaptureText(capture) = <<"*">>
    THEN LET n == NextArgument(p)
         IN  Bind(ConvertFound(n.parser, n.ret), LAMBDA r :
                 Returns(p, IF IsOk(r) THEN Ok(PrecisionExactly(r.val)) ELSE r))
    ELSE Bind(ParseSize(CaptureText(capture), p), LAMBDA r :
             Returns(p, IF IsOk(r) THEN Ok(PrecisionExactly(r.val)) ELSE r))

\* Parseable::parse for Precision
PrecisionParse(capture, p) ==
    IF CaptureText(capture) = <<>> THEN Returns(p, Ok([kind |-> "Auto"]))
    ELSE IF CaptureText(capture) = <<"*">>
    THEN LET n == NextArgument(p)
         IN  Bind(ConvertFound(n.parser, n.ret), LAMBDA r :
                 Returns(n.parser, IF IsOk(r) THEN Ok(PrecisionExactly(r.val)) ELSE r))
    ELSE Bind(ParseSize(CaptureText(capture), p), LAMBDA r :
             Returns(p, IF IsOk(r) THEN Ok(PrecisionExactly(r.val)) ELSE r))

\* parse_specifier_captures: the fields in order, the first error returned.
ParseSpecifierCaptures(captures, p) ==
    LET align == AlignFrom(CaptureText(captures.align))
        sign == SignFrom(CaptureText(captures.sign))
        repr == ReprFrom(CaptureText(captures.repr))
        pad == PadFrom(CaptureText(captures.pad))
        format == FormatFrom(CaptureText(captures.format))
    IN  IF ~IsOk(align) THEN Returns(p, align)
        ELSE IF ~IsOk(sign) THEN Returns(p, sign)
        ELSE IF ~IsOk(repr) THEN Returns(p, repr)
        ELSE IF ~IsOk(pad) THEN Returns(p, pad)
        ELSE Bind(WidthParse(captures.width, p), LAMBDA width :
        IF ~IsOk(width) THEN Returns(p, width)
        ELSE Bind(PrecisionParse(captures.precision, p), LAMBDA precision :
        IF ~IsOk(precision.ret) THEN precision
        ELSE IF ~IsOk(format) THEN Returns(precision.parser, format)
        ELSE Returns(precision.parser,
                     Ok([align |-> align.val, sign |-> sign.val, repr |-> repr.val,
                         pad |-> pad.val, width |-> width.val,
                         precision |-> precision.ret.val, format |-> format.val]))))

\* parse_specifier
ParseSpecifier(spec_str, p) ==
    Bind(SpecReCaptures(spec_str), LAMBDA m :
        IF m = None THEN Returns(p, Err(<<>>))
        ELSE ParseSpecifierCaptures(Unwrap(m), p))

Text(t) == [kind |-> "Text", text |-> t]
SubstitutionSegment(spec, ref) ==
    [kind |-> "Substitution", specifier |-> spec, value |-> ref]

\* A Substitution made without asking the value.
SubstitutionNew_Unchecked(spec, ref, p) == Ok(SubstitutionSegment(spec, ref))

\* Substitution::new
SubstitutionNew(spec, ref, p) ==
    IF SupportsFormat(Deref(p, ref), spec)
    THEN Ok(SubstitutionSegment(spec, ref))
    ELSE Err(<<>>)

\* An advance that counts the characters it passes, not their bytes.
AdvanceAndReturn_CountsChars(p, advance_by, result) ==
    Returns([p EXCEPT !.unparsed = Drop(@, advance_by),
                      !.parsed_len = @ + advance_by],
            result)

\* Parser::advance_and_return; advance_by counts characters of unparsed, the
\* byte counter advances by their bytes.
AdvanceAndReturn(p, advance_by, result) ==
    Returns([p EXCEPT !.unparsed = Drop(@, advance_by),
                      !.parsed_len = @ + ByteLenSeq(Take(p.unparsed, advance_by))],
            result)

\* An error that leaves the rest of the template to be parsed.
Error_KeepsUnparsed(p) == Returns(p, Err(p.parsed_len))

\* An error that reports the start of the template.
Error_AtTemplateStart(p) == Returns([p EXCEPT !.unparsed = <<>>], Err(0))

\* Parser::error
Error(p) == Returns([p EXCEPT !.unparsed = <<>>], Err(p.parsed_len))

\* A text segment that loses its last character.
TextSegment_ShortByOne(p, len) ==
    AdvanceAndReturn(p, len, Text(Take(p.unparsed, len - 1)))

\* Parser::text_segment
TextSegment(p, len) == AdvanceAndReturn(p, len, Text(Take(p.unparsed, len)))

\* A lookup that takes a value from the iterator for an explicit index too.
LookupArgument_IndexAdvances(p, captures) ==
    IF IsSome(captures.index)
    THEN Bind(ParseUsize(Unwrap(captures.index)), LAMBDA idx :
             Returns(NextArgument(p).parser,
                     IF IsSome(idx) THEN LookupArgumentByIndex(p, Unwrap(idx))
                     ELSE None))
    ELSE IF IsSome(captures.name)
    THEN Returns(p, LookupArgumentByName(p, Unwrap(captures.name)))
    ELSE NextArgument(p)

\* Parser::lookup_argument
LookupArgument(p, captures) ==
    IF IsSome(captures.index)
    THEN Bind(ParseUsize(Unwrap(captures.index)), LAMBDA idx :
             Returns(p, IF IsSome(idx) THEN LookupArgumentByIndex(p, Unwrap(idx))
                        ELSE None))
    ELSE IF IsSome(captures.name)
    THEN Returns(p, LookupArgumentByName(p, Unwrap(captures.name)))
    ELSE NextArgument(p)

\* A substitution that looks its value up before it parses the specifier.
ParseSubstitution_ValueFirst(p) ==
    Bind(ArgReCaptures(p.unparsed), LAMBDA m :
        IF m = None THEN Error(p)
        ELSE Bind(LookupArgument(p, Unwrap(m)), LAMBDA lk :
             Bind(ParseSpecifierCaptures(Unwrap(m), lk.parser), LAMBDA sp :
             IF ~IsOk(sp.ret) THEN Error(sp.parser)
             ELSE IF lk.ret = None THEN Error(sp.parser)
             ELSE Bind(SubstitutionNew(sp.ret.val, Unwrap(lk.ret), sp.parser),
                       LAMBDA sub :
                  IF ~IsOk(sub) THEN Error(sp.parser)
                  ELSE AdvanceAndReturn(sp.parser, Unwrap(m).end, sub)))))

\* Parser::parse_substitution
ParseSubstitution(p) ==
    Bind(ArgReCaptures(p.unparsed), LAMBDA m :
        IF m = None THEN Error(p)
        ELSE Bind(ParseSpecifierCaptures(Unwrap(m), p), LAMBDA sp :
             IF ~IsOk(sp.ret) THEN Error(sp.parser)
             ELSE Bind(LookupArgument(sp.parser, Unwrap(m)), LAMBDA lk :
                  IF lk.ret = None THEN Error(lk.parser)
                  ELSE Bind(SubstitutionNew(sp.ret.val, Unwrap(lk.ret), lk.parser),
                            LAMBDA sub :
                       IF ~IsOk(sub) THEN Error(lk.parser)
                       ELSE AdvanceAndReturn(lk.parser, Unwrap(m).end, sub)))))

\* An escape that keeps both braces.
ParseBraces_KeepsBoth(p) ==
    IF ByteLenSeq(p.unparsed) < 2 THEN Error(p)
    ELSE IF p.unparsed[1] = p.unparsed[2]
    THEN AdvanceAndReturn(p, 2, Ok(Text(Take(p.unparsed, 2))))
    ELSE ParseSubstitution(p)

\* Parser::parse_braces
ParseBraces(p) ==
    IF ByteLenSeq(p.unparsed) < 2 THEN Error(p)
    ELSE IF p.unparsed[1] = p.unparsed[2]
    THEN AdvanceAndReturn(p, 2, Ok(Text(Take(p.unparsed, 1))))
    ELSE ParseSubstitution(p)

BRACES == {"{", "}"}

\* str::find(BRACES): the number of characters before the first brace.
FindBrace(s) ==
    IF \E i \in 1..Len(s) : s[i] \in BRACES
    THEN Some((CHOOSE i \in 1..Len(s) :
                  s[i] \in BRACES /\ \A j \in 1..(i - 1) : s[j] \notin BRACES) - 1)
    ELSE None

\* Iterator::next for Parser
ParserNext(p) ==
    IF ByteLenSeq(p.unparsed) = 0 THEN Returns(p, None)
    ELSE Bind(FindBrace(p.unparsed), LAMBDA found :
             IF found = None
             THEN Bind(TextSegment(p, Len(p.unparsed)), LAMBDA t :
                      Returns(t.parser, Some(Ok(t.ret))))
             ELSE IF Unwrap(found) = 0
             THEN Bind(ParseBraces(p), LAMBDA b : Returns(b.parser, Some(b.ret)))
             ELSE Bind(TextSegment(p, Unwrap(found)), LAMBDA t :
                      Returns(t.parser, Some(Ok(t.ret)))))

\* impl ArgumentSource for Parser: the three functions of the trait, each
\* forwarding to the Parser's own.
SourceNextArgument(p) == NextArgument(p)

\* A lookup by index that moves the iterator to the value it returns.
SourceLookupArgumentByIndex_Seeks(p, idx) ==
    Returns([p EXCEPT !.positional_iter =
                IF idx < Len(p.positional) THEN idx + 1 ELSE @],
            LookupArgumentByIndex(p, idx))

SourceLookupArgumentByIndex(p, idx) == Returns(p, LookupArgumentByIndex(p, idx))

SourceLookupArgumentByName(p, name) == Returns(p, LookupArgumentByName(p, name))

-----------------------------------------------------------------------------
(* Rendering.                                                               *)

(* format_value hands the value to write! with a format string made of the  *)
(* Specifier's fields; write! calls the std trait the format names, which   *)
(* ArgumentFormatter forwards to the value's fmt_* function, which for the  *)
(* Variant calls the std formatting of the i32 or f64 inside with the same  *)
(* Formatter.  What std does with the Formatter's options is modelled here  *)
(* for the values and options the inputs reach.                             *)

RECURSIVE Pow(_, _)
Pow(b, e) == IF e = 0 THEN 1 ELSE b * Pow(b, e - 1)

LowerDigits == <<"0", "1", "2", "3", "4", "5", "6", "7", "8", "9",
                 "a", "b", "c", "d", "e", "f">>
UpperDigits == <<"0", "1", "2", "3", "4", "5", "6", "7", "8", "9",
                 "A", "B", "C", "D", "E", "F">>

RECURSIVE NatDigits(_, _, _)
\* The digits of n >= 0 in the radix, at least one.
NatDigits(n, radix, digits) ==
    IF n < radix THEN <<digits[n + 1]>>
    ELSE NatDigits(n \div radix, radix, digits) \o <<digits[(n % radix) + 1]>>

Repeat(c, n) == [i \in 1..n |-> c]

\* The digits of the i32 as a u32 (two's complement) in radix 2, 8 or 16:
\* for a negative n it is 2^31 + (n + 2^31), the high digit raised by the
\* digit 2^31 stands for.
TwosComplementDigits(n, radix, digits) ==
    IF n >= 0 THEN NatDigits(n, radix, digits)
    ELSE LET count == CASE radix = 2 -> 32 [] radix = 8 -> 11 [] radix = 16 -> 8
             high == CASE radix = 2 -> 1 [] radix = 8 -> 2 [] radix = 16 -> 8
             low == NatDigits(n + 1073741824 + 1073741824, radix, digits)
             padded == Repeat("0", count - Len(low)) \o low
             top == CHOOSE d \in 1..radix : digits[d] = padded[1]
         IN  <<digits[top + high]>> \o Tail(padded)

\* A padding that puts the odd space of a centred value before it.
PadTo_OddSpaceFirst(body, spec, default) ==
    LET n == IF spec.width.kind = "AtLeast" /\ spec.width.width > Len(body)
             THEN spec.width.width - Len(body) ELSE 0
        align == IF spec.align = "None" THEN default ELSE spec.align
    IN  CASE align = "Left" -> body \o Repeat(" ", n)
          [] align = "Right" -> Repeat(" ", n) \o body
          [] align = "Center" ->
                Repeat(" ", n - (n \div 2)) \o body \o Repeat(" ", n \div 2)

\* Formatter::padding: the text within the width, filled with spaces
\* according to the alignment, `default` when none is given.
PadTo(body, spec, default) ==
    LET n == IF spec.width.kind = "AtLeast" /\ spec.width.width > Len(body)
             THEN spec.width.width - Len(body) ELSE 0
        align == IF spec.align = "None" THEN default ELSE spec.align
    IN  CASE align = "Left" -> body \o Repeat(" ", n)
          [] align = "Right" -> Repeat(" ", n) \o body
          [] align = "Center" ->
                Repeat(" ", n \div 2) \o body \o Repeat(" ", n - (n \div 2))

\* Formatter::pad_integral and pad_formatted_parts: the sign, the prefix of
\* the alternate form, and the digits, zero-padded after the sign or padded
\* with spaces, numbers to the right by default.
PadNumber(spec, nonneg, prefix, digits) ==
    LET sign == IF ~nonneg THEN <<"-">>
                ELSE IF spec.sign = "Always" THEN <<"+">> ELSE <<>>
        pre == IF spec.repr = "Alt" THEN prefix ELSE <<>>
        body == sign \o pre \o digits
    IN  IF spec.pad = "Zero" /\ spec.width.kind = "AtLeast"
           /\ spec.width.width > Len(body)
        THEN sign \o pre \o Repeat("0", spec.width.width - Len(body)) \o digits
        ELSE PadTo(body, spec, "Right")

Abs(n) == IF n < 0 THEN 0 - n ELSE n

RECURSIVE StripTrailingZeros(_)
StripTrailingZeros(s) ==
    IF Len(s) > 1 /\ s[Len(s)] = "0" THEN StripTrailingZeros(Take(s, Len(s) - 1))
    ELSE s

\* n / 10^k rounded to the nearest, a tie to even.
RoundDiv(n, k) ==
    LET d == Pow(10, k)
        q == n \div d
        r == n % d
    IN  IF k = 0 THEN n
        ELSE IF r * 2 > d \/ (r * 2 = d /\ q % 2 = 1) THEN q + 1 ELSE q

\* The mantissa and exponent of the decimal number with digits `ds` whose
\* last digit counts 10^last, to the precision asked: d[.ddd]e<exp>.
ExpText(ds, last, precision, e) ==
    Bind(StripTrailingZeros(ds), LAMBDA sig :
    Bind(IF precision.kind = "Exactly" THEN precision.precision ELSE Len(sig) - 1,
         LAMBDA want :
    Bind(IF Len(sig) - 1 > want THEN Len(sig) - 1 - want ELSE 0, LAMBDA drop :
    Bind(NatDigits(RoundDiv(DecimalValue(sig), drop), 10, LowerDigits),
         LAMBDA rounded :
    \* rounding up to the next power of ten gives one digit more
    Bind(IF Len(rounded) > Len(sig) - drop
         THEN Take(rounded, Len(rounded) - 1) ELSE rounded, LAMBDA kept :
    Bind(last + (Len(ds) - Len(sig)) + drop + (Len(rounded) - Len(kept))
             + (Len(kept) - 1), LAMBDA exp :
    Bind(Tail(kept) \o Repeat("0", want - (Len(kept) - 1)), LAMBDA frac :
        <<Head(kept)>> \o (IF frac = <<>> THEN <<>> ELSE <<".">> \o frac)
        \o <<e>> \o (IF exp < 0 THEN <<"-">> ELSE <<>>)
        \o NatDigits(Abs(exp), 10, LowerDigits))))))))

\* impl Display, Octal, LowerHex, UpperHex, Binary, LowerExp, UpperExp for i32
FmtI32(n, spec, format) ==
    CASE format = "Display" ->
            PadNumber(spec, n >= 0, <<>>, NatDigits(Abs(n), 10, LowerDigits))
      [] format = "Octal" ->
            PadNumber(spec, TRUE, <<"0", "o">>, TwosComplementDigits(n, 8, LowerDigits))
      [] format = "LowerHex" ->
            PadNumber(spec, TRUE, <<"0", "x">>, TwosComplementDigits(n, 16, LowerDigits))
      [] format = "UpperHex" ->
            PadNumber(spec, TRUE, <<"0", "x">>, TwosComplementDigits(n, 16, UpperDigits))
      [] format = "Binary" ->
            PadNumber(spec, TRUE, <<"0", "b">>, TwosComplementDigits(n, 2, LowerDigits))
      [] format = "LowerExp" ->
            PadNumber(spec, n >= 0, <<>>,
                      ExpText(NatDigits(Abs(n), 10, LowerDigits), 0, spec.precision, "e"))
      [] format = "UpperExp" ->
            PadNumber(spec, n >= 0, <<>>,
                      ExpText(NatDigits(Abs(n), 10, LowerDigits), 0, spec.precision, "E"))

FracDigits(frac) == [i \in 1..Len(frac) |-> LowerDigits[frac[i] + 1]]

\* The decimal text of the float with `p` digits after the point.
FixedText(v, p) ==
    Bind(DecimalValue(NatDigits(v.int, 10, LowerDigits) \o FracDigits(v.frac)),
         LAMBDA all :
    Bind(IF p >= Len(v.frac) THEN all * Pow(10, p - Len(v.frac))
         ELSE RoundDiv(all, Len(v.frac) - p), LAMBDA scaled :
        LET int == NatDigits(scaled \div Pow(10, p), 10, LowerDigits)
            frac == NatDigits(scaled % Pow(10, p), 10, LowerDigits)
        IN  IF p = 0 THEN int
            ELSE int \o <<".">> \o Repeat("0", p - Len(frac)) \o frac))

\* The shortest decimal text of the float, with at least `min` digits after
\* the point.
ShortestText(v, min) ==
    LET frac == IF \A i \in 1..Len(v.frac) : v.frac[i] = 0 THEN <<>>
                ELSE StripTrailingZeros(FracDigits(v.frac))
        padded == frac \o Repeat("0", IF min > Len(frac) THEN min - Len(frac) ELSE 0)
    IN  NatDigits(v.int, 10, LowerDigits)
        \o (IF padded = <<>> THEN <<>> ELSE <<".">> \o padded)

\* impl Display, Debug, LowerExp, UpperExp for f64
FmtF64(v, spec, format) ==
    CASE format = "Display" ->
            PadNumber(spec, ~v.neg, <<>>,
                      IF spec.precision.kind = "Exactly"
                      THEN FixedText(v, spec.precision.precision)
                      ELSE ShortestText(v, 0))
      [] format = "Debug" ->
            PadNumber(spec, ~v.neg, <<>>,
                      IF spec.precision.kind = "Exactly"
                      THEN FixedText(v, spec.precision.precision)
                      ELSE ShortestText(v, 1))
      [] format = "LowerExp" ->
            PadNumber(spec, ~v.neg, <<>>,
                      ExpText(StripZeros(NatDigits(v.int, 10, LowerDigits)
                                         \o FracDigits(v.frac)) \o
                              (IF v.int = 0 /\ \A i \in 1..Len(v.frac) : v.frac[i] = 0
                               THEN <<"0">> ELSE <<>>),
                              0 - Len(v.frac), spec.precision, "e"))
      [] format = "UpperExp" ->
            PadNumber(spec, ~v.neg, <<>>,
                      ExpText(StripZeros(NatDigits(v.int, 10, LowerDigits)
                                         \o FracDigits(v.frac)) \o
                              (IF v.int = 0 /\ \A i \in 1..Len(v.frac) : v.frac[i] = 0
                               THEN <<"0">> ELSE <<>>),
                              0 - Len(v.frac), spec.precision, "E"))

\* #[derive(Debug)] for Variant: the variant's name and, in parentheses, the
\* field's Debug with the same Formatter; the alternate form on lines of
\* its own.
FmtDerivedDebug(v, spec) ==
    LET name == IF v.kind = "Int" THEN <<"I", "n", "t">>
                ELSE <<"F", "l", "o", "a", "t">>
    IN  Bind(IF v.kind = "Int" THEN FmtI32(v.val, spec, "Display")
             ELSE FmtF64(v, spec, "Debug"),
             LAMBDA field :
                 IF spec.repr = "Alt"
                 THEN name \o <<"(", "\n", " ", " ", " ", " ">> \o field
                      \o <<",", "\n", ")">>
                 ELSE name \o <<"(">> \o field \o <<")">>)

\* The fmt_* function of FormatArgument that each Format reaches through
\* the std trait ArgumentFormatter implements.
FormatFn(format) ==
    CASE format = "Display" -> "fmt_display"
      [] format = "Debug" -> "fmt_debug"
      [] format = "Octal" -> "fmt_octal"
      [] format = "LowerHex" -> "fmt_lower_hex"
      [] format = "UpperHex" -> "fmt_upper_hex"
      [] format = "Binary" -> "fmt_binary"
      [] format = "LowerExp" -> "fmt_lower_exp"
      [] format = "UpperExp" -> "fmt_upper_exp"

\* Variant::fmt_display .. fmt_upper_exp, with the Formatter write! built
\* from the Specifier.
VariantFmt(fn, v, spec) ==
    CASE fn = "fmt_display" ->
            Ok(IF v.kind = "Int" THEN FmtI32(v.val, spec, "Display")
               ELSE FmtF64(v, spec, "Display"))
      [] fn = "fmt_debug" -> Ok(FmtDerivedDebug(v, spec))
      [] fn = "fmt_octal" ->
            IF v.kind = "Int" THEN Ok(FmtI32(v.val, spec, "Octal")) ELSE Err(<<>>)
      [] fn = "fmt_lower_hex" ->
            IF v.kind = "Int" THEN Ok(FmtI32(v.val, spec, "LowerHex")) ELSE Err(<<>>)
      [] fn = "fmt_upper_hex" ->
            IF v.kind = "Int" THEN Ok(FmtI32(v.val, spec, "UpperHex")) ELSE Err(<<>>)
      [] fn = "fmt_binary" ->
            IF v.kind = "Int" THEN Ok(FmtI32(v.val, spec, "Binary")) ELSE Err(<<>>)
      [] fn = "fmt_lower_exp" ->
            Ok(IF v.kind = "Int" THEN FmtI32(v.val, spec, "LowerExp")
               ELSE FmtF64(v, spec, "LowerExp"))
      [] fn = "fmt_upper_exp" ->
            Ok(IF v.kind = "Int" THEN FmtI32(v.val, spec, "UpperExp")
               ELSE FmtF64(v, spec, "UpperExp"))

\* The format string of the leaf of format_value's match tree that the
\* Specifier selects: concat!("{:", ..., "}") of the literals of the seven
\* variants as generate_code! lists them.
FormatStr(spec) ==
    <<"{", ":">>
    \o (CASE spec.align = "None" -> <<>> [] spec.align = "Left" -> <<"<">>
          [] spec.align = "Center" -> <<"^">> [] spec.align = "Right" -> <<">">>)
    \o (IF spec.sign = "Always" THEN <<"+">> ELSE <<>>)
    \o (IF spec.repr = "Alt" THEN <<"#">> ELSE <<>>)
    \o (IF spec.pad = "Zero" THEN <<"0">> ELSE <<>>)
    \o (IF spec.width.kind = "AtLeast"
        THEN <<"w", "i", "d", "t", "h", "$">> ELSE <<>>)
    \o (IF spec.precision.kind = "Exactly"
        THEN <<".", "p", "r", "e", "c", "i", "s", "i", "o", "n", "$">> ELSE <<>>)
    \o (CASE spec.format = "Display" -> <<>> [] spec.format = "Debug" -> <<"?">>
          [] spec.format = "Octal" -> <<"o">> [] spec.format = "LowerHex" -> <<"x">>
          [] spec.format = "UpperHex" -> <<"X">> [] spec.format = "Binary" -> <<"b">>
          [] spec.format = "LowerExp" -> <<"e">> [] spec.format = "UpperExp" -> <<"E">>)
    \o <<"}">>

\* std::fmt's reading of a format string "{:...}", from the left: the
\* position after an optional fill and alignment, ...
AfterAlign(s, i) ==
    IF CharAt(s, i + 1) \in {"<", "^", ">"} /\ CharAt(s, i) # "}" THEN i + 2
    ELSE IF CharAt(s, i) \in {"<", "^", ">"} THEN i + 1
    ELSE i

\* ... after one optional character of `cls` (the sign, '#', '0'), ...
AfterFlag(s, i, cls) == IF CharAt(s, i) \in cls THEN i + 1 ELSE i

\* ... after an optional count: digits, or digits or an identifier with '$'.
AfterCount(s, i) ==
    IF CharAt(s, i + RunLen(s, i - 1, AlnumChars)) = "$"
          /\ RunLen(s, i - 1, AlnumChars) > 0
    THEN i + RunLen(s, i - 1, AlnumChars) + 1
    ELSE i + RunLen(s, i - 1, AsciiDigits)

\* ... after an optional '.' and count.
AfterPrecision(s, i) == IF CharAt(s, i) = "." THEN AfterCount(s, i + 1) ELSE i

\* The type of the format string: what stands between the precision and
\* the closing brace.
StdType(s) ==
    SubSeq(s,
           AfterPrecision(s,
               AfterCount(s,
                   AfterFlag(s,
                       AfterFlag(s,
                           AfterFlag(s, AfterAlign(s, 3), {"+", "-"}),
                           {"#"}),
                       {"0"}))),
           Len(s) - 1)

\* The std::fmt trait a type stands for.
StdTrait(type) ==
    CASE type = <<>> -> "Display" [] type = <<"?">> -> "Debug"
      [] type = <<"o">> -> "Octal" [] type = <<"x">> -> "LowerHex"
      [] type = <<"X">> -> "UpperHex" [] type = <<"b">> -> "Binary"
      [] type = <<"e">> -> "LowerExp" [] type = <<"E">> -> "UpperExp"

\* An ArgumentFormatter with LowerHex and UpperHex exchanged.
ArgumentFormatterFn_HexExchanged(trait) ==
    CASE trait = "Display" -> "fmt_display"
      [] trait = "Debug" -> "fmt_debug"
      [] trait = "Octal" -> "fmt_octal"
      [] trait = "LowerHex" -> "fmt_upper_hex"
      [] trait = "UpperHex" -> "fmt_lower_hex"
      [] trait = "Binary" -> "fmt_binary"
      [] trait = "LowerExp" -> "fmt_lower_exp"
      [] trait = "UpperExp" -> "fmt_upper_exp"

\* impl fmt::Display .. fmt::UpperExp for ArgumentFormatter: the function of
\* FormatArgument each trait calls.
ArgumentFormatterFn(trait) ==
    CASE trait = "Display" -> "fmt_display"
      [] trait = "Debug" -> "fmt_debug"
      [] trait = "Octal" -> "fmt_octal"
      [] trait = "LowerHex" -> "fmt_lower_hex"
      [] trait = "UpperHex" -> "fmt_upper_hex"
      [] trait = "Binary" -> "fmt_binary"
      [] trait = "LowerExp" -> "fmt_lower_exp"
      [] trait = "UpperExp" -> "fmt_upper_exp"

\* The functions of the value that write! calls for a format string: one
\* for each placeholder in it.
Invoked(fmtstr) ==
    [i \in 1..Cardinality({k \in 1..Len(fmtstr) : fmtstr[k] = "{"}) |->
        ArgumentFormatterFn(StdTrait(StdType(fmtstr)))]

\* format_value: the write! of the leaf of the match tree that the
\* Specifier selects.
FormatValue(spec, v) == VariantFmt(Invoked(FormatStr(spec))[1], v, spec)

RECURSIVE FmtSegments(_, _, _)
\* impl Display for ParsedFormat: every segment in order, the first error
\* returned.
FmtSegments(p, segs, written) ==
    IF segs = <<>> THEN Ok(written)
    ELSE Bind(IF Head(segs).kind = "Text" THEN Ok(Head(segs).text)
              ELSE FormatValue(Head(segs).specifier, Deref(p, Head(segs).value)),
              LAMBDA r :
                  IF IsOk(r) THEN FmtSegments(p, Tail(segs), written \o r.val)
                  ELSE r)

-----------------------------------------------------------------------------
(* The inputs.                                                              *)

\* The most pieces a generated template is made of.
MaxPieces == 2
\* The most characters of a generated template without placeholders.
MaxText == 3
\* The most positional values.
MaxArgs == 2

BasicPieces ==
    { <<"a">>, <<"{", "{">>, <<"}", "}">>, <<"{", "}">>, <<"{", "0", "}">> }

RichPieces ==
    { <<"{">>, <<"}">>,
      <<"{", "1", "}">>, <<"{", "a", "}">>, <<"{", ":", "}">>,
      <<"{", ":", ".", "*", "}">>, <<"{", "0", ":", ".", "*", "}">>,
      <<"{", ":", "1", "$", ".", "*", "}">>,
      <<"{", ":", "1", "$", "}">>, <<"{", ":", "a", "$", "}">>,
      <<"{", ":", ".", "1", "$", "}">>, <<"{", ":", ".", "a", "$", "}">>,
      <<"{", "0", ":", "0", "$", "}">>,
      <<"{", ":", "x", "}">>, <<"{", "0", ":", "x", "}">>,
      <<"{", ":", "Z", "}">>, <<"{", "0", "a", "}">>,
      <<"{", "_", "a", "}">>, <<"{", "a", "_", "}">>, <<"{", CyrillicU, "}">>,
      <<"{", "a", "/", "}">>,
      <<"{", ":", "0", "5", "}">>, <<"{", ":", "<", "3", "}">>,
      <<"{", ":", "+", "#", "x", "}">>, <<"{", ":", "?", "}">> }

RECURSIVE Flatten(_)
Flatten(pieces) ==
    IF pieces = <<>> THEN <<>> ELSE Head(pieces) \o Flatten(Tail(pieces))

BasicSeqs(n) == UNION {[1..k -> BasicPieces] : k \in 0..n}

\* Templates of at most MaxPieces pieces, at most one of them a rich one.
PieceTemplates ==
    {Flatten(s) : s \in BasicSeqs(MaxPieces)}
    \cup UNION {
        {Flatten(pre) \o r \o Flatten(post) :
            r \in RichPieces, post \in BasicSeqs(MaxPieces - 1 - Len(pre))} :
        pre \in BasicSeqs(MaxPieces - 1)}

\* Characters of text: a letter, characters that mean something inside a
\* placeholder, and a character of two bytes.
TextChars == {"a", ":", "$", "0", CyrillicU}

\* Templates without a brace, and those with one brace among the text.
TextTemplates ==
    UNION {[1..k -> TextChars \cup BRACES] : k \in 0..MaxText}

Values == {VariantInt(1), VariantFloat(FALSE, 1, <<5>>)}

PositionalStores == UNION {[1..k -> Values] : k \in 0..MaxArgs}

Names ==
    {<<"a">>, <<"_", "a">>, <<"a", "_">>, <<CyrillicU>>, <<"a", "/">>, <<"0", "a">>}

NoNamedArguments == [n \in {} |-> VariantInt(1)]

NamedStores == {NoNamedArguments} \cup {[n \in Names |-> v] : v \in Values}

\* Templates whose implicit placeholders stand among placeholders with an
\* index or a name.
MixedTemplates ==
    { <<"{", "}", "{", "0", "}", "{", "}">>,
      <<"{", "}", "{", "a", "}", "{", "}">>,
      <<"{", "0", "}", "{", "}", "{", "1", "}", "{", "}">>,
      <<"{", "1", "}", "{", "}", "a", "{", "0", ":", "x", "}", "{", "}">> }

Input(f, p, n) == [format |-> f, positional |-> p, named |-> n]

GeneratedInputs ==
    {Input(f, p, n) :
        f \in PieceTemplates \cup TextTemplates \cup MixedTemplates,
        p \in PositionalStores, n \in NamedStores}

\* Templates and values of the test suite.
Int42 == VariantInt(42)
Float42 == VariantFloat(FALSE, 42, <<0, 4, 2>>)

FooOpen ==
    <<"f", "o", "o", " ", "{">>

BarCloseBaz ==
    <<"b", "a", "r", " ", "}", " ", "b", "a", "z">>

FooBadSpecifierBar ==
    <<"f", "o", "o", " ", "{", ":", "Z", "}", " ", "b", "a", "r">>

FooBadHeadBaz ==
    <<"f", "o", "o", " ", "{", "0", "b", "a", "r", "}", " ", "b", "a", "z">>

TwoImplicit ==
    <<"{", "}", " ", "{", "}">>

ImplicitThenStar ==
    <<"{", "}", " ", "{", "0", ":", ".", "*", "}">>

StarPrecision ==
    <<"#", "{", ":", ".", "*", "}", "#">>

Arglebargle ==
    <<"a", "r", "g", "l", "e", "b", "a", "r", "g", "l", "e">>

NamedPlaceholder ==
    <<"{", "a", "r", "g", "l", "e", "b", "a", "r", "g", "l", "e", "}">>

AsciiIdentifier ==
    <<"a", "s", "c", "i", "i", "_", "i", "d", "e", "n", "t", "i", "f", "i",
      "e", "r">>

AsciiIdentifierPlaceholder ==
    <<"{", "a", "s", "c", "i", "i", "_", "i", "d", "e", "n", "t", "i", "f",
      "i", "e", "r", "}">>

SmokeTemplate ==
    <<"f", "o", "o", " ", "{", ":", "+", "o", "}", " ", "#", "{", "a", "r",
      "g", "l", "e", "b", "a", "r", "g", "l", "e", ":", "^", "5", "}", "#",
      " ", "{", "2", ":", "#", "X", "}", " ", "{", "}", " ", "{", "{", "{",
      "0", ":", "b", "}", "}", "}", " ", "{", ":", "}", " ", "b", "a", "r">>

TestInputs ==
    { Input(FooOpen, <<>>, NoNamedArguments),
      Input(BarCloseBaz, <<>>, NoNamedArguments),
      Input(FooBadSpecifierBar, <<Int42>>, NoNamedArguments),
      Input(FooBadHeadBaz, <<Int42>>, NoNamedArguments),
      Input(TwoImplicit, <<Int42>>, NoNamedArguments),
      Input(TwoImplicit, <<Int42, Float42>>, NoNamedArguments),
      Input(ImplicitThenStar, <<Int42>>, NoNamedArguments),
      Input(StarPrecision, <<VariantInt(5), Float42>>, NoNamedArguments),
      Input(StarPrecision, <<VariantInt(-1), Float42>>, NoNamedArguments),
      Input(NamedPlaceholder, <<>>, NoNamedArguments),
      Input(NamedPlaceholder, <<>>, [n \in {Arglebargle} |-> Float42]),
      Input(AsciiIdentifierPlaceholder, <<>>, [n \in {AsciiIdentifier} |-> Int42]),
      Input(SmokeTemplate, <<VariantInt(17), VariantInt(386), Int42>>,
            [n \in {Arglebargle} |-> VariantInt(-42)]) }

Inputs == GeneratedInputs \cup TestInputs

-----------------------------------------------------------------------------
(* The state machine.  Under Spec, ParsedFormat::parse collects the items   *)
(* of a Parser and the result is rendered.                                  *)

VARIABLES
    format,     \* the template, as given to ParsedFormat::parse
    parser,     \* the Parser
    segments,   \* the segments collected so far
    spans,      \* history: for each collected segment, the byte offset at
                \*   which its text begins in the template and that text
    result,     \* None while parsing, then what ParsedFormat::parse returned
    out,        \* None, then what rendering the result returned
    last,       \* history: the last operation called on the parser
    ret,        \* history: what it returned
    calls,      \* how many calls a client of the Parser has made
    specifier,  \* None, or the Specifier a client holds
    pc

vars == <<format, parser, segments, spans, result, out, last, ret, calls,
          specifier, pc>>

Init ==
    /\ \E in \in Inputs :
          /\ format = in.format
          /\ parser = ParserNew(in.format, in.positional, in.named)
    /\ segments = <<>>
    /\ spans = <<>>
    /\ result = None
    /\ out = None
    /\ last = [op |-> "new"]
    /\ ret = None
    /\ calls = 0
    /\ specifier = None
    /\ pc = "parse"

\* One step of collect() in ParsedFormat::parse: a call of Parser::next.
\* None ends the collection with Ok, an Err ends it with that error and
\* drops what was collected.
CollectNext ==
    /\ pc = "parse"
    /\ \E r \in {ParserNext(parser)} :
           /\ parser' = r.parser
           /\ ret' = r.ret
           /\ IF r.ret = None
              THEN /\ result' = Some(Ok(segments))
                   /\ pc' = "parsed"
                   /\ UNCHANGED <<segments, spans>>
              ELSE IF IsOk(Unwrap(r.ret))
              THEN /\ segments' = Append(segments, Unwrap(r.ret).val)
                   /\ spans' = Append(spans,
                         [at |-> parser.parsed_len,
                          text |-> Take(parser.unparsed,
                                        Len(parser.unparsed) - Len(r.parser.unparsed))])
                   /\ UNCHANGED <<result, pc>>
              ELSE /\ result' = Some(Unwrap(r.ret))
                   /\ segments' = <<>>
                   /\ spans' = <<>>
                   /\ pc' = "failed"
    /\ last' = [op |-> "next"]
    /\ UNCHANGED <<format, out, calls, specifier>>

\* format!("{}", parsed): impl Display for ParsedFormat
Fmt ==
    /\ pc = "parsed"
    /\ out' = Some(FmtSegments(parser, Unwrap(result).val, <<>>))
    /\ pc' = "rendered"
    /\ last' = [op |-> "fmt"]
    /\ UNCHANGED <<format, parser, segments, spans, result, ret, calls, specifier>>

Next == CollectNext \/ Fmt

Spec == Init /\ [][Next]_vars

-----------------------------------------------------------------------------
(* Under SpecSource a client holds a Parser and calls it through its two    *)
(* traits, Iterator and ArgumentSource, in any order.                       *)

\* The most calls the client makes.
MaxCalls == 3

SourceTemplates ==
    {Flatten(s) : s \in BasicSeqs(MaxPieces - 1)}
    \cup { <<"{", ":", ".", "*", "}", "{", "}">>, <<"{", "a", "}", "{", "}">> }

\* The names the client looks up: one the stores may hold, one they never do.
LookupNames == {<<"a">>, <<"b">>}

InitSource ==
    /\ \E f \in SourceTemplates, p \in PositionalStores, n \in NamedStores :
          /\ format = f
          /\ parser = ParserNew(f, p, n)
    /\ segments = <<>>
    /\ spans = <<>>
    /\ result = None
    /\ out = None
    /\ last = [op |-> "new"]
    /\ ret = None
    /\ calls = 0
    /\ specifier = None
    /\ pc = "source"

Called(r, op) ==
    /\ parser' = r.parser
    /\ ret' = r.ret
    /\ last' = op
    /\ calls' = calls + 1
    /\ UNCHANGED <<format, segments, spans, result, out, specifier, pc>>

\* Iterator::next.  The client keeps what the iterator yields: the segments,
\* and the first error.
CallNext ==
    /\ pc = "source" /\ calls < MaxCalls
    /\ \E r \in {ParserNext(parser)} :
          /\ parser' = r.parser
          /\ ret' = r.ret
          /\ segments' = IF r.ret # None /\ IsOk(Unwrap(r.ret))
                         THEN Append(segments, Unwrap(r.ret).val) ELSE segments
          /\ result' = IF result = None /\ r.ret # None /\ ~IsOk(Unwrap(r.ret))
                       THEN r.ret ELSE result
    /\ last' = [op |-> "next"]
    /\ calls' = calls + 1
    /\ UNCHANGED <<format, spans, out, specifier, pc>>

\* ArgumentSource::next_argument
CallNextArgument ==
    /\ pc = "source" /\ calls < MaxCalls
    /\ Called(SourceNextArgument(parser), [op |-> "next_argument"])

\* ArgumentSource::lookup_argument_by_index
CallLookupArgumentByIndex ==
    /\ pc = "source" /\ calls < MaxCalls
    /\ \E idx \in 0..MaxArgs :
          Called(SourceLookupArgumentByIndex(parser, idx),
                 [op |-> "lookup_argument_by_index", idx |-> idx])

\* ArgumentSource::lookup_argument_by_name
CallLookupArgumentByName ==
    /\ pc = "source" /\ calls < MaxCalls
    /\ \E name \in LookupNames :
          Called(SourceLookupArgumentByName(parser, name),
                 [op |-> "lookup_argument_by_name", name |-> name])

NextSource ==
    \/ CallNext
    \/ CallNextArgument
    \/ CallLookupArgumentByIndex
    \/ CallLookupArgumentByName

SpecSource == InitSource /\ [][NextSource]_vars

\* The Parser driven as an iterator to its end, as a for loop over it does:
\* next() is called until it returns None, whatever the items are.
InitIterate ==
    /\ \E in \in Inputs :
          /\ format = in.format
          /\ parser = ParserNew(in.format, in.positional, in.named)
    /\ segments = <<>>
    /\ spans = <<>>
    /\ result = None
    /\ out = None
    /\ last = [op |-> "new"]
    /\ ret = None
    /\ calls = 0
    /\ specifier = None
    /\ pc = "iterate"

\* One turn of the loop: a call of Iterator::next.  calls counts the items
\* yielded, segments keeps the Ok ones and spans what each of them consumed,
\* result the first Err; None ends the loop.
IterateNext ==
    /\ pc = "iterate"
    /\ \E r \in {ParserNext(parser)} :
          /\ parser' = r.parser
          /\ ret' = r.ret
          /\ calls' = IF r.ret = None THEN calls ELSE calls + 1
          /\ segments' = IF r.ret # None /\ IsOk(Unwrap(r.ret))
                         THEN Append(segments, Unwrap(r.ret).val) ELSE segments
          /\ spans' = IF r.ret # None /\ IsOk(Unwrap(r.ret))
                      THEN Append(spans,
                              [at |-> parser.parsed_len,
                               text |-> Take(parser.unparsed,
                                             Len(parser.unparsed)
                                                 - Len(r.parser.unparsed))])
                      ELSE spans
          /\ result' = IF result = None /\ r.ret # None /\ ~IsOk(Unwrap(r.ret))
                       THEN r.ret ELSE result
          /\ pc' = IF r.ret = None THEN "done" ELSE "iterate"
    /\ last' = [op |-> "next"]
    /\ UNCHANGED <<format, out, specifier>>

\* The loop is sequential code: while it has a turn to take, it takes it.
\* This is weak fairness of the turn, WF_vars(IterateNext), with the
\* enabling condition written out: next() gives a result for every Parser
\* and a turn changes pc or calls, so a turn can be taken exactly when pc is
\* "iterate".
IterateFairness == []<>(pc # "iterate") \/ []<><<IterateNext>>_vars

SpecIterate == InitIterate /\ [][IterateNext]_vars /\ IterateFairness

-----------------------------------------------------------------------------
(* Under SpecSpecifier a client works with a Specifier on its own: it       *)
(* writes one out with Display and reads a specifier text with               *)
(* parse_specifier, and the same text is put between "{:" and "}" and given *)
(* to a Parser.                                                             *)

\* impl Display for Specifier, without the point before the precision.
SpecifierDisplay_NoPoint(spec) ==
    (CASE spec.align = "None" -> <<>> [] spec.align = "Left" -> <<"<">>
       [] spec.align = "Center" -> <<"^">> [] spec.align = "Right" -> <<">">>)
    \o (IF spec.sign = "Always" THEN <<"+">> ELSE <<>>)
    \o (IF spec.repr = "Alt" THEN <<"#">> ELSE <<>>)
    \o (IF spec.pad = "Zero" THEN <<"0">> ELSE <<>>)
    \o (IF spec.width.kind = "AtLeast"
        THEN NatDigits(spec.width.width, 10, LowerDigits) ELSE <<>>)
    \o (IF spec.precision.kind = "Exactly"
        THEN NatDigits(spec.precision.precision, 10, LowerDigits)
        ELSE <<>>)
    \o (CASE spec.format = "Display" -> <<>> [] spec.format = "Debug" -> <<"?">>
          [] spec.format = "Octal" -> <<"o">> [] spec.format = "LowerHex" -> <<"x">>
          [] spec.format = "UpperHex" -> <<"X">> [] spec.format = "Binary" -> <<"b">>
          [] spec.format = "LowerExp" -> <<"e">> [] spec.format = "UpperExp" -> <<"E">>)

\* impl Display for Specifier: the seven fields in order, a default variant
\* writes nothing, a width and a precision are written in decimal.
SpecifierDisplay(spec) ==
    (CASE spec.align = "None" -> <<>> [] spec.align = "Left" -> <<"<">>
       [] spec.align = "Center" -> <<"^">> [] spec.align = "Right" -> <<">">>)
    \o (IF spec.sign = "Always" THEN <<"+">> ELSE <<>>)
    \o (IF spec.repr = "Alt" THEN <<"#">> ELSE <<>>)
    \o (IF spec.pad = "Zero" THEN <<"0">> ELSE <<>>)
    \o (IF spec.width.kind = "AtLeast"
        THEN NatDigits(spec.width.width, 10, LowerDigits) ELSE <<>>)
    \o (IF spec.precision.kind = "Exactly"
        THEN <<".">> \o NatDigits(spec.precision.precision, 10, LowerDigits)
        ELSE <<>>)
    \o (CASE spec.format = "Display" -> <<>> [] spec.format = "Debug" -> <<"?">>
          [] spec.format = "Octal" -> <<"o">> [] spec.format = "LowerHex" -> <<"x">>
          [] spec.format = "UpperHex" -> <<"X">> [] spec.format = "Binary" -> <<"b">>
          [] spec.format = "LowerExp" -> <<"e">> [] spec.format = "UpperExp" -> <<"E">>)

\* The variants of the enums of generate_code!.
Aligns == {"None", "Left", "Center", "Right"}
Signs == {"Default", "Always"}
Reprs == {"Default", "Alt"}
Pads == {"Space", "Zero"}
Formats == {"Display", "Debug", "Octal", "LowerHex", "UpperHex", "Binary",
            "LowerExp", "UpperExp"}

\* The largest of the small widths and precisions a Specifier is given.
MaxSize == 2

\* The small sizes, the widths 5 and 6 of tests/test_output.rs, and the
\* width 42 and the precision 17 of tests/test_traits.rs.
Widths ==
    {[kind |-> "Auto"]} \cup {WidthAtLeast(n) : n \in 0..MaxSize \cup {5, 6, 42}}
Precisions ==
    {[kind |-> "Auto"]} \cup {PrecisionExactly(n) : n \in 0..MaxSize \cup {17}}

Specifiers ==
    [align : Aligns, sign : Signs, repr : Reprs, pad : Pads, width : Widths,
     precision : Precisions, format : Formats]

\* The longest specifier text made of SpecifierChars.
MaxSpecText == 3

SpecifierChars == {"0", "1", "$", "a", ".", "*", "x", "Z", ArabicThree}

\* ">+#042.17E" of parse_specifier_smoke_test
SmokeSpecifier == <<">", "+", "#", "0", "4", "2", ".", "1", "7", "E">>

\* A width by name and a precision by index, as in width_by_name and
\* precision_by_index of tests/test_output.rs.
NameAndIndex == <<"a", "$", ".", "0", "$">>

SpecifierTexts ==
    UNION {[1..k -> SpecifierChars] : k \in 0..MaxSpecText}
    \cup {SmokeSpecifier, NameAndIndex}

\* The stores parse_specifier is given: at most one positional value, and
\* the named stores, one of them with a name that is a digit outside ASCII.
SpecifierSources ==
    {ParserNew(<<>>, p, n) :
        p \in {s \in PositionalStores : Len(s) <= 1},
        n \in NamedStores
               \cup {[k \in {<<"a">>, <<ArabicThree>>} |-> VariantInt(2)]}}

\* struct NoValues of parse_specifier_smoke_test
NoValues == ParserNew(<<>>, <<>>, NoNamedArguments)

InitSpecifier ==
    /\ \/ /\ specifier \in {Some(s) : s \in Specifiers}
          /\ format = <<>>
          /\ parser = NoValues
          /\ pc = "specifier"
       \/ /\ specifier = None
          /\ format \in SpecifierTexts
          /\ parser \in SpecifierSources
          /\ pc = "text"
    /\ segments = <<>>
    /\ spans = <<>>
    /\ result = None
    /\ out = None
    /\ last = [op |-> "new"]
    /\ ret = None
    /\ calls = 0

\* specifier.to_string()
CallToString ==
    /\ pc = "specifier"
    /\ format' = SpecifierDisplay(Unwrap(specifier))
    /\ pc' = "text"
    /\ last' = [op |-> "to_string"]
    /\ UNCHANGED <<parser, segments, spans, result, out, ret, calls, specifier>>

\* parse_specifier(&text, &mut source)
CallParseSpecifier ==
    /\ pc = "text"
    /\ \E r \in {ParseSpecifier(format, parser)} :
          /\ parser' = r.parser
          /\ ret' = Some(r.ret)
    /\ pc' = "specified"
    /\ last' = [op |-> "parse_specifier"]
    /\ UNCHANGED <<format, segments, spans, result, out, calls, specifier>>

\* The values a Specifier is rendered with.
FormatValues == Values \cup {Int42, Float42, VariantInt(-42)}

\* format_value(&specifier, &value, f), as Display for Substitution calls
\* it: with a value that supports the Specifier.  The precision is kept
\* small (the digits of a Float are computed in machine integers here).
CallFormatValue ==
    /\ pc = "specifier"
    /\ Unwrap(specifier).precision.kind = "Exactly" =>
           Unwrap(specifier).precision.precision <= MaxSize
    /\ \E v \in FormatValues :
          /\ SupportsFormat(v, Unwrap(specifier))
          /\ out' = Some(FormatValue(Unwrap(specifier), v))
          /\ last' = [op |-> "format_value", value |-> v,
                       invoked |-> Invoked(FormatStr(Unwrap(specifier)))]
    /\ pc' = "formatted"
    /\ UNCHANGED <<format, parser, segments, spans, result, ret, calls, specifier>>

\* The template "{:s}" of a specifier text s.
Placeholder(s) == <<"{", ":">> \o s \o <<"}">>

\* The placeholders a specifier text s may stand in: "{:s}", and for the
\* empty text "{}" as well.
Placeholders(s) ==
    {Placeholder(s)} \cup (IF s = <<>> THEN {<<"{", "}">>} ELSE {})

\* Parser::new("{:s}", ...).next() over the stores parse_specifier was given;
\* `last` keeps where that Parser's positional cursor stands afterwards.
NextOfPlaceholder ==
    /\ pc = "specified"
    /\ \E t \in Placeholders(format) :
       \E r \in {ParserNext(ParserNew(t, parser.positional, parser.named))} :
          /\ result' = r.ret
          /\ spans' = <<[at |-> 0,
                         text |-> Take(t, Len(t) - Len(r.parser.unparsed))]>>
          /\ last' = [op |-> "next", positional_iter |-> r.parser.positional_iter]
    /\ pc' = "tokenized"
    /\ UNCHANGED <<format, parser, segments, out, ret, calls, specifier>>

NextSpecifier ==
    \/ CallToString
    \/ CallParseSpecifier
    \/ NextOfPlaceholder
    \/ CallFormatValue

SpecSpecifier == InitSpecifier /\ [][NextSpecifier]_vars

-----------------------------------------------------------------------------
(* The claims.                                                              *)

Parsed == pc \in {"parsed", "rendered"}

\* The byte offset, in the template, of the character the parser stands at.
CursorOffset == ByteLenSeq(format) - ByteLenSeq(parser.unparsed)

BraceFree(t) == \A i \in 1..Len(t) : t[i] \notin {"{", "}"}

\* C1: a template that contains neither '{' nor '}' parses for any positional
\* and named arguments, and rendering the result gives back exactly the
\* template; the empty template gives no segment and renders as the empty
\* string.
C1_BraceFreeIdentity ==
    BraceFree(format) =>
        /\ pc # "failed"
        /\ (Parsed /\ format = <<>>) => Unwrap(result).val = <<>>
        /\ (Parsed /\ format # <<>>) => Unwrap(result).val = <<Text(format)>>
        /\ pc = "rendered" => out = Some(Ok(format))

C1_Witness ==
    /\ pc = "rendered"
    /\ BraceFree(format)
    /\ Len(format) = 3
    /\ \E i \in 1..Len(format) : format[i] = CyrillicU
    /\ out = Some(Ok(format))

AtDoubledBrace(p) ==
    /\ Len(p.unparsed) >= 2
    /\ p.unparsed[1] \in {"{", "}"}
    /\ p.unparsed[2] = p.unparsed[1]

RECURSIVE Unescaped(_)
\* The text with every doubled brace, read from the left, made one brace.
Unescaped(t) ==
    IF t = <<>> THEN <<>>
    ELSE IF Len(t) >= 2 /\ t[1] \in {"{", "}"} /\ t[2] = t[1]
    THEN <<t[1]>> \o Unescaped(Drop(t, 2))
    ELSE <<t[1]>> \o Unescaped(Tail(t))

OnlyText(segs) == \A i \in 1..Len(segs) : segs[i].kind = "Text"

\* C2: when the parser stands at a brace and the next byte is the same brace,
\* next() gives one Text segment holding that single brace and advances by
\* two bytes, whatever follows; so a template of text and doubled braces
\* renders as its text with every doubled brace made one ('{{}}' as '{}').
C2_DoubledBrace ==
    [][ /\ (pc = "parse" /\ AtDoubledBrace(parser)) =>
              /\ ret' = Some(Ok(Text(<<parser.unparsed[1]>>)))
              /\ segments' = Append(segments, Text(<<parser.unparsed[1]>>))
              /\ parser'.parsed_len = parser.parsed_len + 2
              /\ parser'.unparsed = Drop(parser.unparsed, 2)
        /\ (pc' = "rendered" /\ OnlyText(segments')) =>
              out' = Some(Ok(Unescaped(format)))
      ]_vars

C2_Witness ==
    /\ pc = "rendered"
    /\ format = <<"{", "{", "}", "}">>
    /\ out = Some(Ok(<<"{", "}">>))

\* The placeholder a segment was made from names no index and no name.
ImplicitHead(span) == span.text[2] \in {":", "}"}

\* How many of the first i segments come from placeholders with an implicit
\* head.
ImplicitCount(i) ==
    Cardinality({j \in 1..i :
                    segments[j].kind = "Substitution" /\ ImplicitHead(spans[j])})

\* C3: in a template without '*', the k-th placeholder with an implicit head,
\* counted from the left, holds the k-th positional value, whatever
\* placeholders with an index or a name stand between them.
C3_ImplicitInOrder ==
    (\A c \in 1..Len(format) : format[c] # "*") =>
        \A i \in 1..Len(segments) :
            (segments[i].kind = "Substitution" /\ ImplicitHead(spans[i])) =>
                segments[i].value = PosRef(ImplicitCount(i) - 1)

C3_Witness ==
    /\ pc = "parsed"
    /\ format = <<"{", "}", "{", "0", "}", "{", "}">>
    /\ segments[2].value = PosRef(0)
    /\ segments[3].value = PosRef(1)

IsLookup(op) == op \in {"lookup_argument_by_index", "lookup_argument_by_name"}

\* C4: on the Parser as an Argument Source, a call of lookup_argument_by_index
\* or lookup_argument_by_name, wherever it falls among calls of next_argument
\* and next, leaves unchanged what the next call of next_argument returns;
\* the lookup by index returns the positional value at that index, none when
\* the index is out of range, wherever the cursor is.
C4_LookupsLeaveCursor ==
    [][ (calls' = calls + 1 /\ IsLookup(last'.op)) =>
            /\ NextArgument(parser').ret = NextArgument(parser).ret
            /\ parser'.positional_iter = parser.positional_iter
            /\ last'.op = "lookup_argument_by_index" =>
                  ret' = IF last'.idx < Len(parser.positional)
                         THEN Some(PosRef(last'.idx)) ELSE None
      ]_vars

C4_Witness ==
    /\ pc = "source"
    /\ last = [op |-> "lookup_argument_by_index", idx |-> 0]
    /\ parser.positional_iter = 2
    /\ ret = Some(PosRef(0))

\* The parser stands at a '{' that begins text matching the placeholder
\* grammar.
AtPlaceholder(p) ==
    /\ Len(p.unparsed) >= 2
    /\ p.unparsed[1] = "{"
    /\ ~AtDoubledBrace(p)
    /\ ArgReCaptures(p.unparsed) # None

Star == Some(<<"*">>)

\* C5: within one placeholder the width is resolved first, then the
\* precision, then the value.  A width that does not resolve fails the
\* placeholder before '*' takes anything from the cursor; a '*' precision takes
\* the next positional value from the cursor, and fails the placeholder when
\* the cursor is exhausted even if the head names an index that exists; the
\* implicit value of the placeholder is the positional value after the one '*'
\* took.  '{:.*}' with [5, 42.042] has precision 5 and the second value, and
\* '{} {0:.*}' with one value fails at offset 3.
C5_WidthPrecisionValue ==
    [][ /\ (pc = "parse" /\ AtPlaceholder(parser)) =>
              LET cap == Unwrap(ArgReCaptures(parser.unparsed))
                  c == parser.positional_iter
                  n == Len(parser.positional)
                  widthFails == ~IsOk(WidthParse(cap.width, parser))
              IN  /\ widthFails =>
                        /\ ret' = Some(Err(CursorOffset))
                        /\ parser'.positional_iter = c
                  /\ (~widthFails /\ cap.precision = Star /\ c >= n) =>
                        ret' = Some(Err(CursorOffset))
                  /\ (~widthFails /\ cap.precision = Star /\ c < n) =>
                        /\ parser'.positional_iter >= c + 1
                        /\ IsOk(Unwrap(ret')) =>
                              LET seg == Unwrap(ret').val
                              IN  /\ seg.specifier.precision = PrecisionExactly(
                                         ConvertToSize(parser.positional[c + 1]).val)
                                  /\ (cap.index = None /\ cap.name = None) =>
                                         /\ seg.value = PosRef(c + 1)
                                         /\ parser'.positional_iter = c + 2
        /\ (pc = "parse" /\ format = StarPrecision /\ CursorOffset = 1
               /\ parser.positional = <<VariantInt(5), Float42>>) =>
              ret' = Some(Ok(SubstitutionSegment(
                         [DefaultSpecifier EXCEPT !.precision = PrecisionExactly(5)],
                         PosRef(1))))
        /\ (pc = "parse" /\ format = ImplicitThenStar /\ CursorOffset = 3
               /\ parser.positional = <<Int42>>) =>
              /\ result' = Some(Err(3))
              /\ pc' = "failed"
      ]_vars

C5_Witness ==
    /\ pc = "rendered"
    /\ format = StarPrecision
    /\ parser.positional = <<VariantInt(5), Float42>>
    /\ segments[2].value = PosRef(1)
    /\ segments[2].specifier.precision = PrecisionExactly(5)
    /\ out = Some(Ok(<<"#", "4", "2", ".", "0", "4", "2", "0", "0", "#">>))

\* The parser stands at a brace that neither begins a doubled brace nor
\* begins text matching the placeholder grammar.
AtBadBrace(p) ==
    /\ p.unparsed # <<>>
    /\ p.unparsed[1] \in BRACES
    /\ ~AtDoubledBrace(p)
    /\ ArgReCaptures(p.unparsed) = None

\* C6: when the parser stands at a brace that is neither the first byte of a
\* doubled brace nor the start of text matching the placeholder grammar,
\* parsing fails and the offset reported is the byte offset of that brace in
\* the template: 4 for 'foo {', 'bar } baz', 'foo {:Z} bar' and
\* 'foo {0bar} baz'.
C6_BadBraceOffset ==
    [][ /\ (pc = "parse" /\ AtBadBrace(parser)) =>
              /\ ret' = Some(Err(CursorOffset))
              /\ result' = Some(Err(CursorOffset))
              /\ pc' = "failed"
        /\ (pc = "parse" /\ CursorOffset = 4
               /\ format \in {FooOpen, BarCloseBaz, FooBadSpecifierBar,
                              FooBadHeadBaz}) =>
              /\ AtBadBrace(parser)
              /\ result' = Some(Err(4))
      ]_vars

C6_Witness ==
    /\ pc = "failed"
    /\ format = <<CyrillicU, "{", ":">>
    /\ last.op = "next"
    /\ result = Some(Err(2))

\* The value the placeholder with these captures refers to does not exist
\* when the parser p comes to look it up.
ValueMissing(p, cap) ==
    IF cap.index # None
    THEN LET idx == ParseUsize(Unwrap(cap.index))
         IN  idx = None \/ Unwrap(idx) >= Len(p.positional)
    ELSE IF cap.name # None
    THEN Unwrap(cap.name) \notin DOMAIN p.named
    ELSE p.positional_iter + (IF cap.precision = Star THEN 1 ELSE 0)
             >= Len(p.positional)

OnePlaceholderIndexOne == <<"{", "1", "}">>

\* C7: a placeholder that matches the grammar and refers to a value that does
\* not exist (implicit head with the cursor exhausted, index not smaller than
\* the number of positional values, name absent from the named arguments)
\* fails with the byte offset at which it begins, also after earlier
\* placeholders resolved: '{} {}' with one value fails at 3, '{1}' with one
\* value at 0, '{arglebargle}' without named arguments at 0.
C7_MissingValueOffset ==
    [][ /\ (/\ pc = "parse"
            /\ AtPlaceholder(parser)
            /\ ValueMissing(parser, Unwrap(ArgReCaptures(parser.unparsed)))) =>
              /\ ret' = Some(Err(CursorOffset))
              /\ result' = Some(Err(CursorOffset))
              /\ pc' = "failed"
        /\ (pc = "parse" /\ format = TwoImplicit /\ CursorOffset = 3
               /\ Len(parser.positional) = 1) =>
              /\ segments[1].kind = "Substitution"
              /\ result' = Some(Err(3))
        /\ (pc = "parse" /\ format = OnePlaceholderIndexOne
               /\ Len(parser.positional) = 1) =>
              result' = Some(Err(0))
        /\ (pc = "parse" /\ format = NamedPlaceholder
               /\ parser.named = NoNamedArguments) =>
              result' = Some(Err(0))
      ]_vars

C7_Witness ==
    /\ pc = "failed"
    /\ format = TwoImplicit
    /\ parser.positional = <<Int42>>
    /\ parser.positional_iter = 1
    /\ result = Some(Err(3))

\* The size text names an argument ('N$' or 'name$') that is missing from the
\* stores of p or does not convert to a size.
DollarUnresolved(p, text) ==
    /\ text # <<>>
    /\ text[Len(text)] = "$"
    /\ LET t == Take(text, Len(text) - 1)
       IN  IF IsAsciiDigit(t[1])
           THEN \/ ParseUsize(t) = None
                \/ Unwrap(ParseUsize(t)) >= Len(p.positional)
                \/ ~IsOk(ConvertToSize(p.positional[Unwrap(ParseUsize(t)) + 1]))
           ELSE \/ t \notin DOMAIN p.named
                \/ ~IsOk(ConvertToSize(p.named[t]))

\* The '*' precision finds the cursor exhausted or a value that does not
\* convert to a size.
StarUnresolved(p, cap) ==
    /\ cap.precision = Star
    /\ \/ p.positional_iter >= Len(p.positional)
       \/ ~IsOk(ConvertToSize(p.positional[p.positional_iter + 1]))

IndirectUnresolved(p, cap) ==
    \/ DollarUnresolved(p, CaptureText(cap.width))
    \/ DollarUnresolved(p, CaptureText(cap.precision))
    \/ StarUnresolved(p, cap)

\* C8: a placeholder whose width or precision is indirect ('N$', 'name$' or
\* '*') and whose referenced argument is missing, or present but not
\* convertible to a non-negative size, fails with the byte offset at which the
\* placeholder begins, whether or not its own value exists.
C8_IndirectSizeOffset ==
    [][ (/\ pc = "parse"
         /\ AtPlaceholder(parser)
         /\ IndirectUnresolved(parser, Unwrap(ArgReCaptures(parser.unparsed)))) =>
            /\ ret' = Some(Err(CursorOffset))
            /\ result' = Some(Err(CursorOffset))
            /\ pc' = "failed"
      ]_vars

\* 'a{0:0$}' with one Float: the value at index 0 exists and supports Display,
\* but does not convert to a size.
C8_Witness ==
    /\ pc = "failed"
    /\ format = <<"a", "{", "0", ":", "0", "$", "}">>
    /\ Len(parser.positional) = 1
    /\ parser.positional[1].kind = "Float"
    /\ ~ValueMissing(parser, Unwrap(ArgReCaptures(Tail(format))))
    /\ result = Some(Err(1))

\* The placeholder the parser stands at resolves its specifier and its value,
\* and the value does not support the specifier.
ResolvedUnsupported(p) ==
    /\ AtPlaceholder(p)
    /\ LET cap == Unwrap(ArgReCaptures(p.unparsed))
           sp == ParseSpecifierCaptures(cap, p)
       IN  /\ ~IndirectUnresolved(p, cap)
           /\ ~ValueMissing(p, cap)
           /\ IsOk(sp.ret)
           /\ ~SupportsFormat(Deref(p, Unwrap(LookupArgument(sp.parser, cap).ret)),
                              sp.ret.val)

\* C9: a Substitution exists only for a value and a Specifier for which
\* supports_format returned true.  A placeholder whose value and specifier
\* fields all resolve, but whose value reports no support for the Specifier,
\* fails with the offset at which it begins; every Substitution segment
\* collected satisfies the support predicate.
C9_OnlySupported ==
    [][ /\ (pc = "parse" /\ ResolvedUnsupported(parser)) =>
              /\ ret' = Some(Err(CursorOffset))
              /\ result' = Some(Err(CursorOffset))
              /\ pc' = "failed"
        /\ \A i \in 1..Len(segments') :
              segments'[i].kind = "Substitution" =>
                  SupportsFormat(Deref(parser', segments'[i].value),
                                 segments'[i].specifier)
        /\ (result' # None /\ IsOk(Unwrap(result'))) =>
              \A i \in 1..Len(Unwrap(result').val) :
                  LET seg == Unwrap(result').val[i]
                  IN  seg.kind = "Substitution" =>
                          SupportsFormat(Deref(parser', seg.value), seg.specifier)
      ]_vars

\* 'a{:x}' with a Float: the value exists, the specifier is valid, and a
\* Float does not support LowerHex.
C9_Witness ==
    /\ pc = "failed"
    /\ format = <<"a", "{", ":", "x", "}">>
    /\ Len(parser.positional) >= 1
    /\ parser.positional[1].kind = "Float"
    /\ parser.positional_iter = 1
    /\ result = Some(Err(1))

\* Names as the placeholder grammar is described: a letter or an underscore,
\* then letters, digits and underscores, the letters of any script.
Letter(c) == c \in AsciiLetters \cup {CyrillicU}

NameHead(h) ==
    /\ h # <<>>
    /\ Letter(h[1]) \/ h[1] = "_"
    /\ \A i \in 1..Len(h) : Letter(h[i]) \/ IsDigit(h[i]) \/ h[i] = "_"

\* A head that starts with a digit and goes on with a non-digit, or that
\* holds a '/'.
BadHead(h) ==
    \/ h # <<>> /\ IsDigit(h[1]) /\ \E i \in 1..Len(h) : ~IsDigit(h[i])
    \/ \E i \in 1..Len(h) : h[i] = "/"

\* The template is one placeholder made of a head alone.
HeadOnly ==
    /\ Len(format) >= 3
    /\ format[1] = "{"
    /\ format[Len(format)] = "}"
    /\ \A i \in 2..(Len(format) - 1) : format[i] \notin {"{", "}", ":"}

HeadText == SubSeq(format, 2, Len(format) - 1)

\* C10: a head that starts with a letter or an underscore and goes on with
\* letters, digits or underscores, where the letters include those outside
\* ASCII, is accepted as a name and resolved by named lookup; a head that
\* starts with a digit and goes on with non-digits, or that holds a '/', is
\* rejected with the offset at which the placeholder begins.
C10_NameHeads ==
    HeadOnly =>
        /\ (NameHead(HeadText) /\ HeadText \in DOMAIN parser.named) =>
              /\ pc # "failed"
              /\ Parsed =>
                    Unwrap(result).val =
                        <<SubstitutionSegment(DefaultSpecifier, NamedRef(HeadText))>>
        /\ BadHead(HeadText) =>
              /\ ~Parsed
              /\ pc = "failed" => result = Some(Err(0))

\* '{ascii_identifier}' with that name among the named arguments fails at 0.
C10_Witness ==
    /\ pc = "failed"
    /\ format = AsciiIdentifierPlaceholder
    /\ AsciiIdentifier \in DOMAIN parser.named
    /\ result = Some(Err(0))

\* The part of C10 the code keeps: names of ASCII letters and digits that
\* start with a letter are accepted, and the heads C10 rejects are rejected.
C10_AsciiNameHeads ==
    HeadOnly =>
        /\ (/\ IsAlpha(HeadText[1])
            /\ \A i \in 1..Len(HeadText) : IsAlnum(HeadText[i])
            /\ HeadText \in DOMAIN parser.named) =>
              /\ pc # "failed"
              /\ Parsed =>
                    Unwrap(result).val =
                        <<SubstitutionSegment(DefaultSpecifier, NamedRef(HeadText))>>
        /\ BadHead(HeadText) =>
              /\ ~Parsed
              /\ pc = "failed" => result = Some(Err(0))

\* C11: once the Parser has yielded an Err, every later call of next()
\* returns None: no further segment and no second error.  The first Err
\* carries the byte offset at which the parser stood, and it stays the only
\* error also when segments were yielded before it, so collecting the
\* iterator, as ParsedFormat::parse does, gives that offset and no segments.
C11_NoneAfterErr ==
    [][ (calls' = calls + 1 /\ last'.op = "next") =>
            /\ result # None =>
                  /\ ret' = None
                  /\ segments' = segments
                  /\ result' = result
            /\ (result = None /\ ret' # None /\ ~IsOk(Unwrap(ret'))) =>
                  /\ ret' = Some(Err(CursorOffset))
                  /\ result' = ret'
                  /\ ByteLenSeq(parser'.unparsed) = 0
      ]_vars

\* A segment, then an error, then None.
C11_Witness ==
    /\ pc = "source"
    /\ calls = 3
    /\ Len(segments) = 1
    /\ result = Some(Err(5))
    /\ last.op = "next"
    /\ ret = None


\* A Specifier was written out and its text read back.
ReadBack == pc \in {"specified", "tokenized"} /\ specifier # None

\* The text is a specifier fragment from its first character to its last.
WholeFragment(t) ==
    /\ SpecReCaptures(t) # None
    /\ Unwrap(SpecReCaptures(t)).end = Len(t)

\* What a Specifier with a width of 0 and no zero flag is read back as.
ZeroWidthAsFlag(s) ==
    IF s.pad = "Space" /\ s.width = WidthAtLeast(0)
    THEN [s EXCEPT !.pad = "Zero", !.width = [kind |-> "Auto"]]
    ELSE s

\* C12 as stated: for every Specifier s, the text Display writes is a legal
\* specifier fragment and parse_specifier of it, with a source that holds no
\* arguments, returns Ok(s).
C12_DisplayRoundTrip ==
    ReadBack =>
        /\ WholeFragment(format)
        /\ ret = Some(Ok(Unwrap(specifier)))

\* C12, amended: the text Display writes is a legal specifier fragment, and
\* parse_specifier of it returns Ok(s) for every Specifier s but one with
\* pad Space and width AtLeast 0, whose text begins with the "0" the
\* grammar reads as the zero flag: that one comes back with pad Zero and
\* width Auto.
C12_DisplayRoundTripButZeroWidth ==
    ReadBack =>
        /\ WholeFragment(format)
        /\ ret = Some(Ok(ZeroWidthAsFlag(Unwrap(specifier))))

\* "^042.17E" of tests/test_traits.rs was written and read back.
C12_Witness ==
    /\ ReadBack
    /\ format = <<"^", "0", "4", "2", ".", "1", "7", "E">>
    /\ Unwrap(specifier).width = WidthAtLeast(42)
    /\ ret = Some(Ok(Unwrap(specifier)))

\* A specifier text was given to parse_specifier and, as "{:s}", to a Parser.
Tokenized == pc = "tokenized" /\ specifier = None

\* The placeholder grammar accepts the text between "{:" and "}".
GrammarAccepts(s) ==
    /\ ArgReCaptures(Placeholder(s)) # None
    /\ Unwrap(ArgReCaptures(Placeholder(s))).end = Len(Placeholder(s))

\* parse_specifier and the Parser agree: a Specifier the Parser built is the
\* one parse_specifier returned, and where parse_specifier failed so did
\* the Parser.
SameAsPlaceholder ==
    /\ IsOk(Unwrap(result)) =>
           ret = Some(Ok(Unwrap(result).val.specifier))
    /\ ~IsOk(Unwrap(ret)) => ~IsOk(Unwrap(result))

\* C13 as stated: parse_specifier(s) returns Err for every text s the
\* placeholder grammar does not accept between ':' and '}' (a character
\* that fits no part of the grammar, or text left over after a complete
\* specifier), and for every other text it returns the Specifier the
\* tokenizer builds for "{:s}" against the same Argument Source.
C13_SpecifierAsInPlaceholder ==
    Tokenized =>
        IF GrammarAccepts(format) THEN SameAsPlaceholder
        ELSE ~IsOk(Unwrap(ret))

\* C13, what holds of it: for a text that SPEC_RE matches up to its last
\* character, parse_specifier and the tokenizer of "{:s}" agree.
C13_WholeFragmentsAgree ==
    (Tokenized /\ WholeFragment(format)) =>
        /\ GrammarAccepts(format)
        /\ SameAsPlaceholder

\* "Z" is given to parse_specifier, which returns Ok(Specifier::default()),
\* while "{:Z}" fails at offset 0.
C13_Witness ==
    /\ Tokenized
    /\ format = <<"Z">>
    /\ ret = Some(Ok(DefaultSpecifier))
    /\ result = Some(Err(0))

\* "0$" with a positional value: parse_specifier reads the zero flag, the
\* Parser of "{:0$}" a width taken from argument 0.
C13_ZeroDollar ==
    /\ Tokenized
    /\ format = <<"0", "$">>
    /\ IsOk(Unwrap(ret)) /\ Unwrap(ret).val.pad = "Zero"
    /\ IsOk(Unwrap(result))
    /\ Unwrap(result).val.specifier.pad = "Space"
    /\ Unwrap(result).val.specifier.width = WidthAtLeast(1)

\* What one segment writes: its text, or its value rendered under its
\* Specifier; the value is the one the segment refers to.
SegmentOutput(p, seg) ==
    IF seg.kind = "Text" THEN Ok(seg.text)
    ELSE FormatValue(seg.specifier, Deref(p, seg.value))

RECURSIVE InOrder(_, _)
\* The outputs of the segments, one after another.
InOrder(p, segs) ==
    IF segs = <<>> THEN <<>>
    ELSE SegmentOutput(p, Head(segs)).val \o InOrder(p, Tail(segs))

\* C14: rendering a ParsedFormat that parse returned never fails: every
\* segment holds its value already, a Substitution asks its value only for
\* a Specifier the value supports and that rendering succeeds, and the
\* output is what the segments write, in their order.
C14_RenderNeverFails ==
    pc = "rendered" =>
        /\ IsOk(Unwrap(result))
        /\ \A i \in 1..Len(Unwrap(result).val) :
              LET seg == Unwrap(result).val[i]
              IN  /\ seg.kind = "Substitution" =>
                        SupportsFormat(Deref(parser, seg.value), seg.specifier)
                  /\ IsOk(SegmentOutput(parser, seg))
        /\ out = Some(Ok(InOrder(parser, Unwrap(result).val)))

\* 'a{:x}' with an Int is parsed and rendered: "a1".
C14_Witness ==
    /\ pc = "rendered"
    /\ format = <<"a", "{", ":", "x", "}">>
    /\ Len(Unwrap(result).val) = 2
    /\ out = Some(Ok(<<"a", "1">>))

\* A specifier text was given to parse_specifier.
Specified == pc = "specified" /\ specifier = None

\* The size a token stands for by its form: 'N$' the positional value at
\* index N, 'name$' the named value, anything else a decimal number.
SizeByForm(tok, p) ==
    IF tok[Len(tok)] = "$"
    THEN LET t == Take(tok, Len(tok) - 1)
         IN  IF t[1] \in AsciiDigits
             THEN IF /\ \A i \in 1..Len(t) : t[i] \in AsciiDigits
                     /\ DecimalValue(t) < Len(p.positional)
                  THEN ConvertToSize(p.positional[DecimalValue(t) + 1])
                  ELSE Err(<<>>)
             ELSE IF t \in DOMAIN p.named
                  THEN ConvertToSize(p.named[t])
                  ELSE Err(<<>>)
    ELSE IF \A i \in 1..Len(tok) : tok[i] \in AsciiDigits
         THEN Ok(DecimalValue(tok))
         ELSE Err(<<>>)

\* C15: a width or precision token other than '*' is classified by its
\* form only: 'N$' (the part before '$' starts with a decimal digit 0-9) is
\* a lookup by positional index, any other token ending in '$' is a lookup
\* by name, a token without '$' is a literal decimal number.  A lookup
\* gives the found value converted to a size, fails when the value is
\* missing or does not convert, and leaves the positional cursor where it
\* was.
C15_SizeByForm ==
    Specified =>
        LET cap == Unwrap(SpecReCaptures(format))
            w == cap.width
            pr == cap.precision
            sizes == {SizeByForm(Unwrap(t), parser) : t \in {w, pr} \ {None, Star}}
        IN  /\ (\E r \in sizes : ~IsOk(r)) => ~IsOk(Unwrap(ret))
            /\ ((\A r \in sizes : IsOk(r)) /\ pr # Star) => IsOk(Unwrap(ret))
            /\ IsOk(Unwrap(ret)) =>
                  /\ Unwrap(ret).val.width =
                        IF w = None THEN [kind |-> "Auto"]
                        ELSE WidthAtLeast(SizeByForm(Unwrap(w), parser).val)
                  /\ pr # Star =>
                        Unwrap(ret).val.precision =
                           IF pr = None THEN [kind |-> "Auto"]
                           ELSE PrecisionExactly(SizeByForm(Unwrap(pr), parser).val)
            /\ pr # Star => parser.positional_iter = 0

\* 'a$.0$' with a named value 2 and a positional value 1: width 2 by name,
\* precision 1 by index, the cursor still at 0.
C15_Witness ==
    /\ Specified
    /\ format = <<"a", "$", ".", "0", "$">>
    /\ IsOk(Unwrap(ret))
    /\ Unwrap(ret).val.width = WidthAtLeast(2)
    /\ Unwrap(ret).val.precision = PrecisionExactly(1)
    /\ parser.positional_iter = 0

\* The variant a part of the specifier text stands for; the first is the
\* default, of an absent part.
AlignOf ==
    (None :> "None") @@ (Some(<<"<">>) :> "Left") @@ (Some(<<"^">>) :> "Center")
        @@ (Some(<<">">>) :> "Right")
SignOf == (None :> "Default") @@ (Some(<<"+">>) :> "Always")
ReprOf == (None :> "Default") @@ (Some(<<"#">>) :> "Alt")
PadOf == (None :> "Space") @@ (Some(<<"0">>) :> "Zero")
FormatOf ==
    (None :> "Display") @@ (Some(<<"?">>) :> "Debug") @@ (Some(<<"o">>) :> "Octal")
        @@ (Some(<<"x">>) :> "LowerHex") @@ (Some(<<"X">>) :> "UpperHex")
        @@ (Some(<<"b">>) :> "Binary") @@ (Some(<<"e">>) :> "LowerExp")
        @@ (Some(<<"E">>) :> "UpperExp")

\* ">+#042.17E" as a Specifier (parse_specifier_smoke_test).
SmokeParsed ==
    [align |-> "Right", sign |-> "Always", repr |-> "Alt", pad |-> "Zero",
     width |-> WidthAtLeast(42), precision |-> PrecisionExactly(17),
     format |-> "UpperExp"]

\* C16: each of the seven fields of a parsed Specifier is decided by its own
\* part of the text alone, and an absent part gives the field's default
\* variant.  The empty specifier text, and the placeholders '{}' and '{:}',
\* give Specifier::default(); '>+#042.17E' gives Right, Always, Alt, Zero,
\* AtLeast 42, Exactly 17, UpperExp.
C16_FieldsFromOwnParts ==
    /\ (pc \in {"specified", "tokenized"} /\ IsOk(Unwrap(ret))) =>
          LET cap == Unwrap(SpecReCaptures(format))
              s == Unwrap(ret).val
          IN  /\ s.align = AlignOf[cap.align]
              /\ s.sign = SignOf[cap.sign]
              /\ s.repr = ReprOf[cap.repr]
              /\ s.pad = PadOf[cap.pad]
              /\ s.format = FormatOf[cap.format]
              /\ s.width.kind = IF cap.width = None THEN "Auto" ELSE "AtLeast"
              /\ s.precision.kind =
                    IF cap.precision = None THEN "Auto" ELSE "Exactly"
    /\ (pc \in {"specified", "tokenized"} /\ format = <<>>) =>
          ret = Some(Ok(DefaultSpecifier))
    /\ (pc \in {"specified", "tokenized"} /\ format = SmokeSpecifier) =>
          ret = Some(Ok(SmokeParsed))
    /\ (Tokenized /\ format = <<>>) =>
          /\ spans[1].text \in {<<"{", "}">>, <<"{", ":", "}">>}
          /\ IF parser.positional = <<>> THEN result = Some(Err(0))
             ELSE result =
                    Some(Ok(SubstitutionSegment(DefaultSpecifier, PosRef(0))))

\* '{}' with a value was given to a Parser: a Substitution with the default
\* Specifier.
C16_Witness ==
    /\ Tokenized
    /\ spans[1].text = <<"{", "}">>
    /\ ret = Some(Ok(DefaultSpecifier))
    /\ result = Some(Ok(SubstitutionSegment(DefaultSpecifier, PosRef(0))))

\* A Specifier with a width and pad = Space was used to render a value.
SpacePadded ==
    /\ pc = "formatted"
    /\ Unwrap(specifier).pad = "Space"
    /\ Unwrap(specifier).width.kind = "AtLeast"

\* The rendering of the same value under the same Specifier without width.
Unpadded ==
    FormatValue([Unwrap(specifier) EXCEPT !.width = [kind |-> "Auto"]],
                last.value).val

\* A text of L characters padded to w: itself if w <= L, else with w - L
\* spaces after it for Left, before it for Right, and for Center
\* floor((w - L) / 2) before and the rest after; no alignment is Right.
Padded(text, w, align) ==
    IF w <= Len(text) THEN text
    ELSE CASE align = "Left" -> text \o Repeat(" ", w - Len(text))
           [] align \in {"Right", "None"} -> Repeat(" ", w - Len(text)) \o text
           [] align = "Center" ->
                 Repeat(" ", (w - Len(text)) \div 2) \o text
                 \o Repeat(" ", (w - Len(text)) - ((w - Len(text)) \div 2))

\* C17 as stated: with pad = Space and a width w, the output is the
\* unpadded rendering of L characters if w <= L, and otherwise has exactly
\* w characters, the w - L spaces after the value for '<', before it for
\* '>', floor((w - L) / 2) before and the rest after for '^', and before it
\* when no alignment is given.
C17_PaddedToWidth ==
    SpacePadded =>
        out = Some(Ok(Padded(Unpadded, Unwrap(specifier).width.width,
                             Unwrap(specifier).align)))

\* The characters derive(Debug) writes before and after the field of a
\* Variant: the name and "(", and ")"; in the alternate form a line break
\* and an indentation, and ",", a line break and ")".
DebugOpening ==
    (IF last.value.kind = "Int" THEN 3 ELSE 5)
    + (IF Unwrap(specifier).repr = "Alt" THEN 6 ELSE 1)
DebugClosing == IF Unwrap(specifier).repr = "Alt" THEN 3 ELSE 1

\* C17, amended: the statement holds for every format but Debug.  Under
\* Debug the Variant of the test suite hands the width to the number in
\* its parentheses: that number is padded as stated, the name and the
\* parentheses come on top of the width.
C17_PaddedToWidthButDebug ==
    SpacePadded =>
        IF Unwrap(specifier).format # "Debug"
        THEN out = Some(Ok(Padded(Unpadded, Unwrap(specifier).width.width,
                                  Unwrap(specifier).align)))
        ELSE out = Some(Ok(
                 Take(Unpadded, DebugOpening)
                 \o Padded(SubSeq(Unpadded, DebugOpening + 1,
                                  Len(Unpadded) - DebugClosing),
                           Unwrap(specifier).width.width,
                           Unwrap(specifier).align)
                 \o Drop(Unpadded, Len(Unpadded) - DebugClosing)))

\* 42 under '^5' (Center, width 5): one space before, two after.
C17_Witness ==
    /\ SpacePadded
    /\ last.value = Int42
    /\ Unwrap(specifier) =
          [DefaultSpecifier EXCEPT !.align = "Center", !.width = WidthAtLeast(5)]
    /\ out = Some(Ok(<<" ", "4", "2", " ", " ">>))

\* 42 under '5' (width_embedded of tests/test_output.rs): "   42".
C17_WidthEmbedded ==
    /\ SpacePadded
    /\ last.value = Int42
    /\ Unwrap(specifier) = [DefaultSpecifier EXCEPT !.width = WidthAtLeast(5)]
    /\ out = Some(Ok(<<" ", " ", " ", "4", "2">>))

\* The specifier text is '0' and then one or more decimal digits.
ZeroThenDigits(t) ==
    /\ Len(t) >= 2
    /\ t[1] = "0"
    /\ \A i \in 2..Len(t) : t[i] \in AsciiDigits

\* The Specifier of '0N': zero padding to the width N.
ZeroPadded(n) ==
    [DefaultSpecifier EXCEPT !.pad = "Zero", !.width = WidthAtLeast(n)]

\* C18: in '{:0N}', N one or more decimal digits, the leading '0' is the
\* zero-padding flag and N is the width: pad = Zero and width = AtLeast N,
\* not pad = Space with the width '0N'.  42 under pad Zero and width 5
\* is rendered as "00042".
C18_ZeroFlagThenWidth ==
    /\ (pc \in {"specified", "tokenized"} /\ specifier = None
            /\ ZeroThenDigits(format)) =>
          ret = Some(Ok(ZeroPadded(DecimalValue(Tail(format)))))
    /\ (Tokenized /\ ZeroThenDigits(format) /\ parser.positional # <<>>) =>
          result = Some(Ok(SubstitutionSegment(
                               ZeroPadded(DecimalValue(Tail(format))), PosRef(0))))
    /\ (pc = "formatted" /\ specifier = Some(ZeroPadded(5))
            /\ last.value = Int42) =>
          out = Some(Ok(<<"0", "0", "0", "4", "2">>))

\* '{:01}' with a value was given to a Parser: pad Zero, width 1.
C18_Witness ==
    /\ Tokenized
    /\ format = <<"0", "1">>
    /\ ret = Some(Ok(ZeroPadded(1)))
    /\ result = Some(Ok(SubstitutionSegment(ZeroPadded(1), PosRef(0))))

\* 42 was rendered under pad Zero and width 5 (pad_zero of
\* tests/test_output.rs): "00042".
C18_PadZero ==
    /\ pc = "formatted"
    /\ specifier = Some(ZeroPadded(5))
    /\ last.value = Int42
    /\ out = Some(Ok(<<"0", "0", "0", "4", "2">>))

\* The head of the placeholder the parser stands at is an index or a name.
ExplicitHead(p) ==
    /\ AtPlaceholder(p)
    /\ \/ Unwrap(ArgReCaptures(p.unparsed)).index # None
       \/ Unwrap(ArgReCaptures(p.unparsed)).name # None

\* The precision of the placeholder the parser stands at is '*'.
StarPrecisionAt(p) ==
    /\ AtPlaceholder(p)
    /\ Unwrap(ArgReCaptures(p.unparsed)).precision = Star

\* C19 as stated: the positional cursor advances only in the processing of
\* a placeholder without an explicit index or name; processing a
\* placeholder whose head is an index or a name leaves the cursor where it
\* was.
C19_ExplicitHeadLeavesCursor ==
    [][ parser'.positional_iter # parser.positional_iter =>
            (AtPlaceholder(parser) /\ ~ExplicitHead(parser)) ]_vars

\* C19, amended: the positional cursor advances only in the processing of
\* a placeholder that has no explicit index or name or whose precision is
\* '*'.  A placeholder whose head is an index or a name leaves the cursor
\* where it was unless its precision is '*'; then the cursor advances by
\* the one value the '*' takes, and by nothing if the placeholder fails
\* before it takes one.
C19_ExplicitHeadLeavesCursorButStar ==
    [][ /\ parser'.positional_iter # parser.positional_iter =>
              /\ AtPlaceholder(parser)
              /\ ~ExplicitHead(parser) \/ StarPrecisionAt(parser)
        /\ (pc = "parse" /\ ExplicitHead(parser)) =>
              IF StarPrecisionAt(parser)
              THEN /\ parser'.positional_iter - parser.positional_iter \in {0, 1}
                   /\ IsOk(Unwrap(ret')) =>
                          parser'.positional_iter = parser.positional_iter + 1
              ELSE parser'.positional_iter = parser.positional_iter
      ]_vars

\* '{}{0}' was parsed: the cursor stands at 1 after both placeholders.
C19_Witness ==
    /\ pc = "parsed"
    /\ format = <<"{", "}", "{", "0", "}">>
    /\ Len(segments) = 2
    /\ segments[2].value = PosRef(0)
    /\ parser.positional_iter = 1

\* '{0:.*}' was parsed with two values: the head is an index and the cursor
\* stands at 1.
C19_StarWithIndex ==
    /\ pc = "parsed"
    /\ format = <<"{", "0", ":", ".", "*", "}">>
    /\ Len(segments) = 1
    /\ segments[1].value = PosRef(0)
    /\ parser.positional_iter = 1

\* The precision of the placeholder a segment came from is '*'.
StarPrecisionIn(span) == Unwrap(ArgReCaptures(span.text)).precision = Star

\* How many positional values the placeholders of the first i segments
\* take from the cursor: one for an implicit head and one for a '*'
\* precision; text, escapes, explicit heads and 'N$' and 'name$' sizes take
\* none.
TakenByCursor(i) ==
    ImplicitCount(i)
    + Cardinality({j \in 1..i :
                      segments[j].kind = "Substitution" /\ StarPrecisionIn(spans[j])})

\* C20: after a successful parse, and after every segment on the way to
\* it, the number of values taken from the positional cursor is the number
\* of placeholders with an implicit head plus the number of placeholders
\* with the precision '*'; nothing else advances the cursor.
C20_CursorCountsTakers ==
    pc \in {"parse", "parsed", "rendered"} =>
        parser.positional_iter = TakenByCursor(Len(segments))

\* 'a{:.*}' was parsed: one placeholder, two values taken.
C20_Witness ==
    /\ pc = "parsed"
    /\ format = <<"a", "{", ":", ".", "*", "}">>
    /\ Len(segments) = 2
    /\ TakenByCursor(2) = 2
    /\ parser.positional_iter = 2

\* C21: format_value invokes exactly one of the value's eight rendering
\* functions, the one specifier.format names (Display fmt_display, Debug
\* fmt_debug, Octal fmt_octal, LowerHex fmt_lower_hex, UpperHex
\* fmt_upper_hex, Binary fmt_binary, LowerExp fmt_lower_exp, UpperExp
\* fmt_upper_exp), whatever the other six fields are, and its result is
\* that function's result.
C21_OneFunctionByFormat ==
    pc = "formatted" =>
        /\ last.invoked = <<FormatFn(Unwrap(specifier).format)>>
        /\ out = Some(VariantFmt(FormatFn(Unwrap(specifier).format), last.value,
                                 Unwrap(specifier)))

\* 42 under '>+#042.2X': fmt_upper_hex alone was invoked.
C21_Witness ==
    /\ pc = "formatted"
    /\ last.value = Int42
    /\ Unwrap(specifier) =
          [align |-> "Right", sign |-> "Always", repr |-> "Alt", pad |-> "Zero",
           width |-> WidthAtLeast(42), precision |-> PrecisionExactly(2),
           format |-> "UpperHex"]
    /\ last.invoked = <<"fmt_upper_hex">>
    /\ IsOk(Unwrap(out))

\* parse_specifier returned an error.
SpecifierFailed ==
    /\ pc \in {"specified", "tokenized"}
    /\ specifier = None
    /\ ~IsOk(Unwrap(ret))

\* C22 as stated: when resolving a field fails, parse_specifier and the
\* specifier parsing of a placeholder produce no Specifier and leave the
\* positional cursor of the Argument Source where it was before the
\* attempt, also when a '*' precision found a next value that does not
\* convert to a size.
C22_FailureLeavesCursor ==
    SpecifierFailed =>
        /\ ret = Some(Err(<<>>))
        /\ parser.positional_iter = 0
        /\ (pc = "tokenized" /\ WholeFragment(format)) =>
              /\ result = Some(Err(0))
              /\ last.positional_iter = 0

\* The '*' of the specifier text was reached and found a next value: the
\* precision is '*', the width (if any) resolved and the source holds a
\* positional value.
StarTook ==
    /\ Unwrap(SpecReCaptures(format)).precision = Star
    /\ Unwrap(SpecReCaptures(format)).width # None =>
           IsOk(SizeByForm(Unwrap(Unwrap(SpecReCaptures(format)).width), parser))
    /\ parser.positional # <<>>

\* C22, what holds of it: a failure produces no Specifier, and the cursor
\* is where it was unless a '*' precision took a value that does not
\* convert to a size; that value stays taken.
C22_FailureKeepsWhatStarTook ==
    SpecifierFailed =>
        /\ ret = Some(Err(<<>>))
        /\ parser.positional_iter = IF StarTook THEN 1 ELSE 0
        /\ (pc = "tokenized" /\ WholeFragment(format)) =>
              /\ result = Some(Err(0))
              /\ last.positional_iter = IF StarTook THEN 1 ELSE 0

\* '.*' with the Float 1.5 as the only positional value: parse_specifier
\* and the Parser of '{:.*}' fail, and the value is taken.
C22_Witness ==
    /\ Tokenized
    /\ format = <<".", "*">>
    /\ parser.positional = <<VariantFloat(FALSE, 1, <<5>>)>>
    /\ ret = Some(Err(<<>>))
    /\ parser.positional_iter = 1
    /\ result = Some(Err(0))
    /\ last.positional_iter = 1

\* The character of s that begins at byte offset n, "" when no character
\* begins there (n is past the end or inside a two-byte character).
RECURSIVE CharAtByte(_, _)
CharAtByte(s, n) ==
    IF s = <<>> THEN ""
    ELSE IF n = 0 THEN Head(s)
    ELSE IF n < ByteLen(Head(s)) THEN ""
    ELSE CharAtByte(Tail(s), n - ByteLen(Head(s)))

\* The call of next() that this step makes yields an error.
NextFails == pc = "parse" /\ pc' = "failed"

\* C23: every error offset the Parser reports is smaller than the length of
\* the template in bytes and is the byte offset at which a '{' or a '}'
\* begins in the template. The failing call starts with the remainder
\* beginning with a brace, the byte counter being the offset of that brace,
\* and it reports the counter without having advanced it.
C23_ErrorOffsetAtBrace ==
    [][ NextFails =>
          /\ parser.unparsed # <<>>
          /\ parser.unparsed[1] \in BRACES
          /\ parser.parsed_len = CursorOffset
          /\ parser'.parsed_len = parser.parsed_len
          /\ ret' = Some(Err(parser.parsed_len))
          /\ result' = Some(Err(parser.parsed_len))
          /\ parser.parsed_len < ByteLenSeq(format)
          /\ CharAtByte(format, parser.parsed_len) \in BRACES
      ]_vars

\* 'уу}': the text of two two-byte letters is yielded, then the lone '}'
\* fails at byte 4, which is past the template's three characters and
\* before its five bytes.
C23_Witness ==
    /\ pc = "failed"
    /\ format = <<CyrillicU, CyrillicU, "}">>
    /\ parser.parsed_len = 4
    /\ parser.unparsed = <<>>
    /\ result = Some(Err(4))

\* The texts the calls of next() consumed, one for each segment yielded.
SpanTexts == [i \in 1..Len(spans) |-> spans[i].text]

IsSuffix(t, whole) == \E k \in 0..Len(whole) : t = Drop(whole, k)

\* What the segment seg covers is the consumed text t: a Text segment of
\* plain text covers its own text, the Text segment of an escape covers
\* the two bytes of the doubled brace, a Substitution covers the whole text
\* of its placeholder, from '{' to '}'.
Covers(seg, t) ==
    IF seg.kind = "Text"
    THEN IF BraceFree(seg.text)
         THEN t = seg.text /\ t # <<>>
         ELSE /\ seg.text \in {<<"{">>, <<"}">>}
              /\ t = seg.text \o seg.text
              /\ ByteLenSeq(t) = 2
    ELSE /\ Len(t) >= 2
         /\ t[1] = "{"
         /\ t[Len(t)] = "}"
         /\ \E m \in {ArgReCaptures(t)} : m # None /\ Unwrap(m).end = Len(t)

\* C24: as long as no error has been yielded, the byte counter plus the
\* length of the unparsed remainder is the length of the template, the
\* remainder is a suffix of the template, and the segments yielded so far
\* cover the first byte-counter bytes of the template in order, without gap
\* or overlap: each begins where the one before it ended, the first at 0,
\* the last ends at the byte counter, and their consumed texts followed by
\* the remainder are the template.
C24_SegmentsCoverPrefix ==
    result = None =>
        /\ parser.parsed_len + ByteLenSeq(parser.unparsed) = ByteLenSeq(format)
        /\ IsSuffix(parser.unparsed, format)
        /\ Len(spans) = Len(segments)
        /\ \A i \in 1..Len(spans) :
              /\ spans[i].at = IF i = 1 THEN 0
                               ELSE spans[i - 1].at + ByteLenSeq(spans[i - 1].text)
              /\ Covers(segments[i], spans[i].text)
        /\ parser.parsed_len =
              IF spans = <<>> THEN 0
              ELSE spans[Len(spans)].at + ByteLenSeq(spans[Len(spans)].text)
        /\ Flatten(SpanTexts) \o parser.unparsed = format

\* The template of the test suite, parsed to its end: text, placeholders
\* and both escapes have been yielded and together cover all of it.
C24_Witness ==
    /\ pc = "done"
    /\ result = None
    /\ format = SmokeTemplate
    /\ parser.unparsed = <<>>
    /\ parser.parsed_len = ByteLenSeq(SmokeTemplate)
    /\ \E i, j, k, l \in 1..Len(spans) :
          /\ segments[i].kind = "Text" /\ spans[i].text = <<"f", "o", "o", " ">>
          /\ segments[j] = Text(<<"{">>) /\ spans[j].text = <<"{", "{">>
          /\ segments[k] = Text(<<"}">>) /\ spans[k].text = <<"}", "}">>
          /\ segments[l].kind = "Substitution"
          /\ spans[l].text = <<"{", "2", ":", "#", "X", "}">>

\* The item this step's call of next() yields, None when it yields none.
Yielded == IF pc = "iterate" THEN ret' ELSE None

\* C25: the Parser iterator terminates for every template and arguments.
\* A call of next() that yields Ok leaves a remainder shorter by at least
\* one byte, a call that yields Err leaves it empty, a call with the
\* remainder empty returns None (and only such a call does); the items
\* yielded never outnumber the bytes of the template; and the loop that
\* calls next() until None comes to its end.
C25_IteratorTerminates ==
    /\ [][ pc = "iterate" =>
             /\ (Yielded # None /\ IsOk(Unwrap(Yielded))) =>
                    ByteLenSeq(parser'.unparsed) + 1 <= ByteLenSeq(parser.unparsed)
             /\ (Yielded # None /\ ~IsOk(Unwrap(Yielded))) =>
                    parser'.unparsed = <<>>
             /\ (parser.unparsed = <<>>) <=> (Yielded = None)
             /\ (Yielded = None) <=> (pc' = "done")
         ]_vars
    /\ [](calls <= ByteLenSeq(format))
    /\ <>(pc = "done")

\* 'a{': the text and then the error at 1 are yielded, as many items as
\* the template has bytes, and the next call returns None.
C25_Witness ==
    /\ pc = "done"
    /\ format = <<"a", "{">>
    /\ segments = <<Text(<<"a">>)>>
    /\ result = Some(Err(1))
    /\ calls = 2
    /\ ret = None
    /\ parser.unparsed = <<>>

=============================================================================
